---- MODULE Spec2Model ----
(***************************************************************************)
(* Model of the print-layout core of image-tools (PrintLayout.tsx):        *)
(* the MaxRects packer, packImages, the React state of the PrintLayout     *)
(* component (image list, page configuration, repack effect, page          *)
(* navigation) and the cut-mark computation of the three renderers.        *)
(*                                                                         *)
(* Lengths.  The source computes in millimetres with JavaScript numbers.   *)
(* The model keeps every length as an integer count of 1/Unit mm; Unit is  *)
(* chosen so that every value the enumerated inputs produce (half          *)
(* margins, 215.9 mm, width * naturalHeight / naturalWidth for the         *)
(* enumerated natural sizes) is an exact integer, so the arithmetic of     *)
(* the model is the exact real arithmetic of the source on those inputs.   *)
(***************************************************************************)
EXTENDS Integers, Sequences, FiniteSets, TLC

Unit == 60
Mm(n) == n * Unit

\* The element of a one-element set.  { e(v) : v \in {x} } computes x once
\* and names it v, as a const declaration does.
Only(S) == CHOOSE x \in S : TRUE

Min(a, b) == IF a <= b THEN a ELSE b
Max(a, b) == IF a >= b THEN a ELSE b

(***************************************************************************)
(* Bounds of the model.                                                    *)
(***************************************************************************)
MaxImages == 3

(***************************************************************************)
(* MaxRectsPacker                                                          *)
(***************************************************************************)
Infinity == 2147483647

\* new MaxRectsPacker(pageWidth, pageHeight): one free rectangle.
NewPacker(pageWidth, pageHeight) ==
    << [x |-> 0, y |-> 0, width |-> pageWidth, height |-> pageHeight] >>

\* Mutant: a candidate replaces the best one when its score is equal.
TryRect_LastWins(rect, width, height, best) ==
    LET scoreN == Min(rect.width - width, rect.height - height)
        b1 == IF width <= rect.width /\ height <= rect.height /\ scoreN <= best.score
              THEN [score |-> scoreN,
                    rect  |-> << [x |-> rect.x, y |-> rect.y, rotated |-> FALSE] >>]
              ELSE best
        scoreR == Min(rect.width - height, rect.height - width)
    IN  IF height <= rect.width /\ width <= rect.height /\ scoreR <= b1.score
        THEN [score |-> scoreR,
              rect  |-> << [x |-> rect.x, y |-> rect.y, rotated |-> TRUE] >>]
        ELSE b1

\* One iteration of the for loop of findPosition: `best` is
\* [score, rect] with rect = <<>> for null, <<position>> otherwise.
TryRect(rect, width, height, best) ==
    LET scoreN == Min(rect.width - width, rect.height - height)
        b1 == IF width <= rect.width /\ height <= rect.height /\ scoreN < best.score
              THEN [score |-> scoreN,
                    rect  |-> << [x |-> rect.x, y |-> rect.y, rotated |-> FALSE] >>]
              ELSE best
        scoreR == Min(rect.width - height, rect.height - width)
    IN  IF height <= rect.width /\ width <= rect.height /\ scoreR < b1.score
        THEN [score |-> scoreR,
              rect  |-> << [x |-> rect.x, y |-> rect.y, rotated |-> TRUE] >>]
        ELSE b1

RECURSIVE FindPositionFrom(_, _, _, _, _)
FindPositionFrom(rects, k, width, height, best) ==
    IF k > Len(rects) THEN best.rect
    ELSE Only({ FindPositionFrom(rects, k + 1, width, height, b)
                : b \in { TryRect(rects[k], width, height, best) } })

\* findPosition(width, height): <<>> for null, <<[x, y, rotated]>> otherwise.
FindPosition(rects, width, height) ==
    FindPositionFrom(rects, 1, width, height, [score |-> Infinity, rect |-> <<>>])

\* Mutant: every free rectangle is treated as overlapping the placed one.
intersects_Always(a, b) == TRUE

intersects(a, b) ==
    ~ (\/ a.x >= b.x + b.width
       \/ a.x + a.width <= b.x
       \/ a.y >= b.y + b.height
       \/ a.y + a.height <= b.y)

\* Mutant: only the corner of the inner rectangle is compared.
contains_CornerOnly(outer, inner) ==
    /\ inner.x >= outer.x
    /\ inner.y >= outer.y

contains(outer, inner) ==
    /\ inner.x >= outer.x
    /\ inner.y >= outer.y
    /\ inner.x + inner.width <= outer.x + outer.width
    /\ inner.y + inner.height <= outer.y + outer.height

\* The rectangles one free rectangle contributes to newFreeRects in place().
SplitRect(placedRect, freeRect) ==
    IF ~ intersects(placedRect, freeRect) THEN << freeRect >>
    ELSE
      (IF placedRect.x > freeRect.x
       THEN << [x |-> freeRect.x, y |-> freeRect.y,
                width |-> placedRect.x - freeRect.x, height |-> freeRect.height] >>
       ELSE << >>)
      \o
      (IF placedRect.x + placedRect.width < freeRect.x + freeRect.width
       THEN << [x |-> placedRect.x + placedRect.width, y |-> freeRect.y,
                width |-> freeRect.x + freeRect.width - (placedRect.x + placedRect.width),
                height |-> freeRect.height] >>
       ELSE << >>)
      \o
      (IF placedRect.y > freeRect.y
       THEN << [x |-> freeRect.x, y |-> freeRect.y,
                width |-> freeRect.width, height |-> placedRect.y - freeRect.y] >>
       ELSE << >>)
      \o
      (IF placedRect.y + placedRect.height < freeRect.y + freeRect.height
       THEN << [x |-> freeRect.x, y |-> placedRect.y + placedRect.height,
                width |-> freeRect.width,
                height |-> freeRect.y + freeRect.height - (placedRect.y + placedRect.height)] >>
       ELSE << >>)

RECURSIVE SplitAll(_, _, _)
SplitAll(placedRect, rects, k) ==
    IF k > Len(rects) THEN << >>
    ELSE SplitRect(placedRect, rects[k]) \o SplitAll(placedRect, rects, k + 1)

RECURSIVE PruneFrom(_, _)
PruneFrom(rects, i) ==
    IF i > Len(rects) THEN << >>
    ELSE LET isContained == \E j \in 1..Len(rects) : i # j /\ contains(rects[j], rects[i])
         IN  (IF isContained THEN << >> ELSE << rects[i] >>) \o PruneFrom(rects, i + 1)

\* Mutant: nothing is pruned.
pruneRects_Nothing(rects) == rects

pruneRects(rects) == PruneFrom(rects, 1)

\* place(x, y, width, height): the new free list.
Place(rects, x, y, width, height) ==
    pruneRects(SplitAll([x |-> x, y |-> y, width |-> width, height |-> height], rects, 1))

(***************************************************************************)
(* packImages                                                              *)
(***************************************************************************)
VARIABLES
    pc,               \* position in packImages: "idle", "while", "for", "returned"
    images,           \* argument: the PrintImage list
    cfg,              \* arguments: pageWidth, pageHeight, pageMargin, imageMargin
    remainingImages,  \* local of packImages
    pages,            \* local of packImages, its return value
    page,             \* local of the while body: the Page being filled
    freeRects,        \* packer.freeRects of the while body's packer
    placedIds,        \* local of the while body
    idx,              \* position of the for loop in remainingImages
    placedRects,      \* history: the rectangles handed to packer.place for `page`
    fallbackIds,      \* history: ids pushed by the oversized-image branch
    passes,           \* history: completed iterations of the while loop
    refInput,         \* history: << input of the first call >> when calls repeat
    refResult,        \* history: <<>> or << the Page[] that call returned >>
    prevInput,        \* history: << input of the call before this one >>
    lastTry           \* history: << the last findPosition call and the place it led to >>

packVars == << pc, images, cfg, remainingImages, pages, page, freeRects, placedIds,
               idx, placedRects, fallbackIds, passes, refInput, refResult, prevInput,
               lastTry >>


Area(img) == img.width * img.height

\* Mutant: an image goes before the images of equal area already placed.
SortInsert_Unstable(sorted, img) ==
    LET k == Cardinality({ j \in 1..Len(sorted) : Area(sorted[j]) > Area(img) })
    IN  SubSeq(sorted, 1, k) \o << img >> \o SubSeq(sorted, k + 1, Len(sorted))

\* Array.prototype.sort is stable: an image goes after every image already
\* placed whose area is not smaller (comparator b.area - a.area).
SortInsert(sorted, img) ==
    LET k == Cardinality({ j \in 1..Len(sorted) : Area(sorted[j]) >= Area(img) })
    IN  SubSeq(sorted, 1, k) \o << img >> \o SubSeq(sorted, k + 1, Len(sorted))

RECURSIVE SortFrom(_, _, _)
SortFrom(imgs, k, sorted) ==
    IF k > Len(imgs) THEN sorted
    ELSE SortFrom(imgs, k + 1, SortInsert(sorted, imgs[k]))

SortByArea(imgs) == SortFrom(imgs, 1, << >>)

availableWidth(c)  == c.pageWidth - 2 * c.pageMargin
availableHeight(c) == c.pageHeight - 2 * c.pageMargin

\* Mutant: the image margin is left out of the rectangle handed to place.
ReservedRect_NoMargin(img, position, imageMargin) ==
    [x      |-> position.x,
     y      |-> position.y,
     width  |-> IF position.rotated THEN img.height ELSE img.width,
     height |-> IF position.rotated THEN img.width ELSE img.height]

\* Mutant: the rotated flag is ignored when the rectangle is reserved.
ReservedRect_NoSwap(img, position, imageMargin) ==
    [x      |-> position.x,
     y      |-> position.y,
     width  |-> img.width + imageMargin,
     height |-> img.height + imageMargin]

\* The rectangle packImages hands to packer.place for a found position.
ReservedRect(img, position, imageMargin) ==
    LET imgWidth  == img.width + imageMargin
        imgHeight == img.height + imageMargin
    IN  [x      |-> position.x,
         y      |-> position.y,
         width  |-> IF position.rotated THEN imgHeight ELSE imgWidth,
         height |-> IF position.rotated THEN imgWidth ELSE imgHeight]

\* Mutant: the position is not translated by the page margin.
PackedAt_NoTranslate(img, position, pageMargin) ==
    [image |-> img, x |-> position.x, y |-> position.y, rotated |-> position.rotated]

\* The PackedImage pushed for a found position.
PackedAt(img, position, pageMargin) ==
    [image   |-> img,
     x       |-> position.x + pageMargin,
     y       |-> position.y + pageMargin,
     rotated |-> position.rotated]

\* Mutant: the oversized image is rotated whenever it does not fit unrotated.
FallbackImage_RotateUnlessNormal(img, c) ==
    LET fitsNormal == img.width <= availableWidth(c) /\ img.height <= availableHeight(c)
    IN  [image |-> img, x |-> c.pageMargin, y |-> c.pageMargin, rotated |-> ~ fitsNormal]

\* The PackedImage pushed by the oversized-image branch.
FallbackImage(img, c) ==
    LET fitsNormal  == img.width <= availableWidth(c) /\ img.height <= availableHeight(c)
        fitsRotated == img.height <= availableWidth(c) /\ img.width <= availableHeight(c)
    IN  [image   |-> img,
         x       |-> c.pageMargin,
         y       |-> c.pageMargin,
         rotated |-> ~ fitsNormal /\ fitsRotated]

\* Mutant: a forward splice loop, which skips the element after each removal.
RECURSIVE ForwardSplice(_, _)
ForwardSplice(remaining, ids) ==
    IF remaining = << >> THEN << >>
    ELSE IF Head(remaining).id \in ids
    THEN IF Len(remaining) >= 2
         THEN << remaining[2] >> \o ForwardSplice(SubSeq(remaining, 3, Len(remaining)), ids)
         ELSE << >>
    ELSE << Head(remaining) >> \o ForwardSplice(Tail(remaining), ids)

RemovePlaced_ForwardSplice(remaining, ids) == ForwardSplice(remaining, ids)

\* The reverse splice loop: drop the images whose id is in placedIds.
RemovePlaced(remaining, ids) ==
    SelectSeq(remaining, LAMBDA img : img.id \notin ids)

\* Mutant: the packer is created for the whole page, not the printable area.
FreshPass_WholePage(c) ==
    [freeRects   |-> NewPacker(c.pageWidth, c.pageHeight),
     page        |-> [images |-> << >>],
     placedIds   |-> {},
     placedRects |-> << >>]

\* The state of one iteration of the while loop: the packer's free list, the
\* page, placedIds, and (history) the rectangles handed to packer.place.
FreshPass(c) ==
    [freeRects   |-> NewPacker(availableWidth(c), availableHeight(c)),
     page        |-> [images |-> << >>],
     placedIds   |-> {},
     placedRects |-> << >>]

\* The body of for (const img of remainingImages).
ForBody(img, pass, c) ==
    Only({ IF position = << >> THEN pass
           ELSE Only({ [freeRects   |-> Place(pass.freeRects, r.x, r.y, r.width, r.height),
                        page        |-> [images |-> Append(pass.page.images,
                                                 PackedAt(img, position[1], c.pageMargin))],
                        placedIds   |-> pass.placedIds \cup {img.id},
                        placedRects |-> Append(pass.placedRects, r)]
                       : r \in { ReservedRect(img, position[1], c.imageMargin) } })
           : position \in { FindPosition(pass.freeRects, img.width + c.imageMargin,
                                         img.height + c.imageMargin) } })

\* Mutant: the page is pushed even when the pass placed nothing.
AfterFor_PushEmpty(pass, remaining, pagesAcc, c) ==
    LET rest == RemovePlaced(remaining, pass.placedIds)
        big  == [images |-> << FallbackImage(Head(rest), c) >>]
    IN  IF Len(pass.page.images) > 0
        THEN [pages |-> Append(pagesAcc, pass.page), remainingImages |-> rest,
              page |-> pass.page, fallback |-> {}]
        ELSE IF Len(rest) > 0
        THEN [pages |-> Append(Append(pagesAcc, pass.page), big),
              remainingImages |-> Tail(rest), page |-> big, fallback |-> {Head(rest).id}]
        ELSE [pages |-> Append(pagesAcc, pass.page), remainingImages |-> rest,
              page |-> pass.page, fallback |-> {}]

\* Mutant: the oversized-image branch pushes the page but leaves the image in
\* remainingImages (no shift).
AfterFor_NoShift(pass, remaining, pagesAcc, c) ==
    LET rest == RemovePlaced(remaining, pass.placedIds)
        big  == [images |-> << FallbackImage(Head(rest), c) >>]
    IN  IF Len(pass.page.images) > 0
        THEN [pages |-> Append(pagesAcc, pass.page), remainingImages |-> rest,
              page |-> pass.page, fallback |-> {}]
        ELSE IF Len(rest) > 0
        THEN [pages |-> Append(pagesAcc, big), remainingImages |-> rest,
              page |-> big, fallback |-> {Head(rest).id}]
        ELSE [pages |-> pagesAcc, remainingImages |-> rest,
              page |-> pass.page, fallback |-> {}]

\* After the for loop: remove the placed images, then push the page or take
\* the oversized-image branch.  `fallback` is the set of ids that branch pushed.
AfterFor(pass, remaining, pagesAcc, c) ==
    LET rest == RemovePlaced(remaining, pass.placedIds)
        big  == [images |-> << FallbackImage(Head(rest), c) >>]
    IN  IF Len(pass.page.images) > 0
        THEN [pages |-> Append(pagesAcc, pass.page), remainingImages |-> rest,
              page |-> pass.page, fallback |-> {}]
        ELSE IF Len(rest) > 0
        THEN [pages |-> Append(pagesAcc, big), remainingImages |-> Tail(rest),
              page |-> big, fallback |-> {Head(rest).id}]
        ELSE [pages |-> pagesAcc, remainingImages |-> rest,
              page |-> pass.page, fallback |-> {}]

\* packImages as a function: the for loop, the while loop, the whole call.
RECURSIVE ForLoop(_, _, _, _)
ForLoop(remaining, k, pass, c) ==
    IF k > Len(remaining) THEN pass
    ELSE Only({ ForLoop(remaining, k + 1, next, c)
                : next \in { ForBody(remaining[k], pass, c) } })

RECURSIVE WhileLoop(_, _, _)
WhileLoop(remaining, pagesAcc, c) ==
    IF Len(remaining) = 0 THEN pagesAcc
    ELSE Only({ WhileLoop(out.remainingImages, out.pages, c)
                : out \in { AfterFor(ForLoop(remaining, 1, FreshPass(c), c),
                                     remaining, pagesAcc, c) } })

packImages(imgs, pageWidth, pageHeight, pageMargin, imageMargin) ==
    WhileLoop(SortByArea(imgs), << >>,
              [pageWidth |-> pageWidth, pageHeight |-> pageHeight,
               pageMargin |-> pageMargin, imageMargin |-> imageMargin])

\* The state of the PrintLayout component.
VARIABLES
    pageSize,          \* useState("a4")
    customWidth,       \* useState(210)
    customHeight,      \* useState(297)
    pageMargin,        \* useState(DEFAULT_PAGE_MARGIN)
    imageMargin,       \* useState(DEFAULT_IMAGE_MARGIN)
    printImages,       \* useState([])
    currentPageIndex,  \* useState(0), 0-based
    statePages,        \* useState([]): the component's `pages`
    isInitializedRef,  \* useRef(false).current
    repackPending,     \* the repack effect is due: one of its dependencies changed
    pagesFresh,        \* setPages stored a new array the preview effect has not seen
    nextId,            \* stands for crypto.randomUUID(): ids are never reused
    removedAt,         \* history: << pages.length, currentPageIndex >> when the
                       \* last change was a removeImage, << >> otherwise
    lastResize,        \* history: the arguments of the last updateImageSize call
                       \* and the image as it was stored before it, in a
                       \* one-element sequence, or << >>
    lastEntry,         \* history: the last entry typed into a number input, with
                       \* the stored value and the field's range at that moment,
                       \* in a one-element sequence, or << >>
    loadingImages      \* the Image loads addImageToPrint started that have not
                       \* completed: natural size, and the print list when the
                       \* load was started

layoutVars == << pageSize, customWidth, customHeight, pageMargin, imageMargin,
                 printImages, currentPageIndex, statePages, isInitializedRef,
                 repackPending, pagesFresh, nextId, removedAt, lastResize, lastEntry,
                 loadingImages >>

\* What the three renderers have emitted.
VARIABLES
    canvasMarks,       \* the cut-mark path segments stroked on the preview canvas, in upx
    pdfMarks,          \* the cut-mark lines drawn into the PDF
    printMarks,        \* the cut-marker divs of the print document
    rendered           \* which of "canvas", "pdf", "print" have run

\* The renderers step by step: image loads in flight and what has been
\* emitted so far.
VARIABLES
    previewRuns,       \* the runs of the preview effect, oldest first: the images each
                       \* loads, its `cancelled` flag, the loads still pending
    canvasDrawn,       \* the images drawn on the canvas since it was last cleared
    lastLoad,          \* history: the last preview load callback, in a one-element
                       \* sequence, or << >>
    pdfJob,            \* the running downloadPdf call, in a one-element sequence, or << >>
    printJob           \* the running handlePrint call, in a one-element sequence, or << >>

loadVars == << previewRuns, canvasDrawn, lastLoad, pdfJob, printJob >>

renderVars == << canvasMarks, pdfMarks, printMarks, rendered, loadVars >>

vars == << packVars, layoutVars, renderVars >>

\* packImages step by step.  Entry, up to the first test of the while loop.
CallWith(input) ==
    /\ pc \in {"idle", "returned"}
    /\ images' = input.images
    /\ cfg' = input.cfg
    /\ pages' = << >>
    /\ remainingImages' = SortByArea(input.images)
    /\ passes' = 0
    /\ fallbackIds' = {}
    /\ pc' = "while"
    /\ lastTry' = << >>
    /\ UNCHANGED << page, freeRects, placedIds, idx, placedRects, refResult >>
    /\ UNCHANGED << layoutVars, renderVars >>

\* Mutant: the packer is created once and reused by later pages and calls.
NewPage_ReusePacker ==
    /\ pc = "while"
    /\ Len(remainingImages) > 0
    /\ freeRects' = IF freeRects = << >> THEN FreshPass(cfg).freeRects ELSE freeRects
    /\ page' = FreshPass(cfg).page
    /\ placedIds' = FreshPass(cfg).placedIds
    /\ placedRects' = FreshPass(cfg).placedRects
    /\ idx' = 1
    /\ pc' = "for"
    /\ UNCHANGED << images, cfg, remainingImages, pages, fallbackIds, passes,
                    refInput, refResult, prevInput, lastTry >>
    /\ UNCHANGED << layoutVars, renderVars >>

\* while (remainingImages.length > 0): a fresh packer, page and placedIds.
NewPage ==
    /\ pc = "while"
    /\ Len(remainingImages) > 0
    /\ freeRects' = FreshPass(cfg).freeRects
    /\ page' = FreshPass(cfg).page
    /\ placedIds' = FreshPass(cfg).placedIds
    /\ placedRects' = FreshPass(cfg).placedRects
    /\ idx' = 1
    /\ pc' = "for"
    /\ UNCHANGED << images, cfg, remainingImages, pages, fallbackIds, passes,
                    refInput, refResult, prevInput, lastTry >>
    /\ UNCHANGED << layoutVars, renderVars >>

\* One iteration of for (const img of remainingImages).
TryImage ==
    /\ pc = "for"
    /\ idx <= Len(remainingImages)
    /\ \E next \in { ForBody(remainingImages[idx],
                             [freeRects |-> freeRects, page |-> page,
                              placedIds |-> placedIds, placedRects |-> placedRects],
                             cfg) } :
           /\ freeRects' = next.freeRects
           /\ page' = next.page
           /\ placedIds' = next.placedIds
           /\ placedRects' = next.placedRects
    /\ idx' = idx + 1
    /\ UNCHANGED << pc, images, cfg, remainingImages, pages, fallbackIds, passes,
                    refInput, refResult, prevInput >>
    /\ lastTry' = << [rects    |-> freeRects,
                      width    |-> remainingImages[idx].width + cfg.imageMargin,
                      height   |-> remainingImages[idx].height + cfg.imageMargin,
                      position |-> FindPosition(freeRects,
                                       remainingImages[idx].width + cfg.imageMargin,
                                       remainingImages[idx].height + cfg.imageMargin),
                      placed   |-> IF Len(placedRects') > Len(placedRects)
                                   THEN << placedRects'[Len(placedRects')] >> ELSE << >>,
                      after    |-> freeRects'] >>
    /\ UNCHANGED << layoutVars, renderVars >>

\* The end of the for loop and the rest of the while body.
EndPass ==
    /\ pc = "for"
    /\ idx > Len(remainingImages)
    /\ \E out \in { AfterFor([freeRects |-> freeRects, page |-> page,
                              placedIds |-> placedIds, placedRects |-> placedRects],
                             remainingImages, pages, cfg) } :
           /\ pages' = out.pages
           /\ remainingImages' = out.remainingImages
           /\ page' = out.page
           /\ fallbackIds' = fallbackIds \cup out.fallback
    /\ passes' = passes + 1
    /\ pc' = "while"
    /\ UNCHANGED << images, cfg, freeRects, placedIds, idx, placedRects,
                    refInput, refResult, prevInput, lastTry >>
    /\ UNCHANGED << layoutVars, renderVars >>

\* The while test fails: return pages.  The first result returned for the
\* remembered input is kept.
Return ==
    /\ pc = "while"
    /\ Len(remainingImages) = 0
    /\ pc' = "returned"
    /\ refResult' = IF refInput = << [images |-> images, cfg |-> cfg] >> /\ refResult = << >>
                    THEN << pages >>
                    ELSE refResult
    /\ UNCHANGED << images, cfg, remainingImages, pages, page, freeRects, placedIds,
                    idx, placedRects, fallbackIds, passes, refInput, prevInput,
                    lastTry >>
    /\ UNCHANGED << layoutVars, renderVars >>

(***************************************************************************)
(* The inputs of packImages that are explored.                             *)
(***************************************************************************)
\* Image sizes in mm (width, height).
ImageDims == { <<20, 20>>, <<30, 20>>, <<25, 50>>, <<40, 25>>, <<48, 38>>, <<300, 300>> }

\* pageWidth, pageHeight, pageMargin, imageMargin in mm: A4 with the default
\* margins, custom pages at the lower limit of the custom size inputs, with
\* and without margins, a landscape custom page, and page margins that leave
\* no printable area.
PackConfigsMm == { <<210, 297, 10, 5>>, <<50, 60, 0, 0>>, <<50, 60, 5, 5>>,
                   <<60, 50, 0, 0>>, <<50, 50, 25, 0>>, <<100, 50, 50, 5>> }

ConfigOf(t) == [pageWidth |-> Mm(t[1]), pageHeight |-> Mm(t[2]),
                pageMargin |-> Mm(t[3]), imageMargin |-> Mm(t[4])]

\* Image lists of at most n images over the sizes `dims`, ids 1..Len.
ImageLists(dims, n) ==
    UNION { { [k \in 1..m |-> [id |-> k, width |-> Mm(f[k][1]), height |-> Mm(f[k][2])]]
              : f \in [1..m -> dims] } : m \in 0..n }

PackInputs ==
    { [images |-> l, cfg |-> ConfigOf(t)] : l \in ImageLists(ImageDims, MaxImages),
                                            t \in PackConfigsMm }

\* One invocation of packImages.
Call ==
    /\ pc = "idle"
    /\ \E input \in PackInputs : CallWith(input)
    /\ UNCHANGED << refInput, prevInput >>

(***************************************************************************)
(* The PrintLayout component: the values its state starts from, the event  *)
(* handlers that change it, the repack effect, and page navigation.        *)
(***************************************************************************)
DEFAULT_PAGE_MARGIN == Mm(10)
DEFAULT_IMAGE_MARGIN == Mm(5)

PAGE_SIZES ==
    << [id |-> "a4",     width |-> Mm(210),             height |-> Mm(297)],
       [id |-> "a3",     width |-> Mm(297),             height |-> Mm(420)],
       [id |-> "letter", width |-> (2159 * Unit) \div 10, height |-> (2794 * Unit) \div 10],
       [id |-> "legal",  width |-> (2159 * Unit) \div 10, height |-> (3556 * Unit) \div 10],
       [id |-> "a5",     width |-> Mm(148),             height |-> Mm(210)],
       [id |-> "custom", width |-> Mm(210),             height |-> Mm(297)] >>

\* PAGE_SIZES.find((p) => p.id === pageSize) ?? PAGE_SIZES[0]
selectedPageSize ==
    IF \E k \in 1..Len(PAGE_SIZES) : PAGE_SIZES[k].id = pageSize
    THEN PAGE_SIZES[CHOOSE k \in 1..Len(PAGE_SIZES) :
                        /\ PAGE_SIZES[k].id = pageSize
                        /\ \A j \in 1..(k - 1) : PAGE_SIZES[j].id # pageSize]
    ELSE PAGE_SIZES[1]

effectiveWidth  == IF pageSize = "custom" THEN customWidth ELSE selectedPageSize.width
effectiveHeight == IF pageSize = "custom" THEN customHeight ELSE selectedPageSize.height

\* x * num / den in the arithmetic of the source; the model's lengths make the
\* quotient an integer for every input it enumerates.
MulRatio(x, num, den) == CHOOSE q \in { (x * num) \div den } : q * den = x * num

\* The PrintImage that img.onload of addImageToPrint appends.
NewPrintImage(id, naturalWidth, naturalHeight) ==
    [id            |-> id,
     width         |-> Mm(50),
     height        |-> MulRatio(Mm(50), naturalHeight, naturalWidth),
     naturalWidth  |-> naturalWidth,
     naturalHeight |-> naturalHeight]

\* Mutant: the height branch multiplies by the aspect ratio instead of dividing.
ResizedImage_Multiply(img, width, height, maintainAspect) ==
    IF maintainAspect
    THEN IF width # img.width
         THEN [img EXCEPT !.width = width,
                          !.height = MulRatio(width, img.naturalHeight, img.naturalWidth)]
         ELSE [img EXCEPT !.width = MulRatio(height, img.naturalHeight, img.naturalWidth),
                          !.height = height]
    ELSE [img EXCEPT !.width = width, !.height = height]

\* The map callback of updateImageSize for the image whose id matches.
ResizedImage(img, width, height, maintainAspect) ==
    IF maintainAspect
    THEN IF width # img.width
         THEN [img EXCEPT !.width = width,
                          !.height = MulRatio(width, img.naturalHeight, img.naturalWidth)]
         ELSE [img EXCEPT !.width = MulRatio(height, img.naturalWidth, img.naturalHeight),
                          !.height = height]
    ELSE [img EXCEPT !.width = width, !.height = height]

\* updateImageSize(imageId, width, height, maintainAspect) applied to prev.
updateImageSize(prev, imageId, width, height, maintainAspect) ==
    [k \in 1..Len(prev) |->
        IF prev[k].id # imageId THEN prev[k]
        ELSE ResizedImage(prev[k], width, height, maintainAspect)]

\* removeImage(imageId) applied to prev.
removeImage(prev, imageId) == SelectSeq(prev, LAMBDA img : img.id # imageId)

\* Mutant: the index is clamped only when it is beyond newPages.length.
ClampIndex_OffByOne(prev, n) == IF prev > n THEN Max(0, n - 1) ELSE prev

\* The updater the repack effect passes to setCurrentPageIndex.
ClampIndex(prev, n) == IF prev >= n THEN Max(0, n - 1) ELSE prev

\* e.target.valueAsNumber: NaN, or the number typed (mm).
NaN == << >>
Num(v) == << v >>

\* Mutant: the upper end of the range is not applied.
Clamp_NoUpper(lo, hi, val) == Max(lo, val)

\* Math.max(lo, Math.min(hi, val))
Clamp(lo, hi, val) == Max(lo, Min(hi, val))

\* What the user types into the number inputs, and the natural sizes (px)
\* of the gallery images.
NaturalSizes    == { <<800, 400>>, <<300, 900>> }
SizeTyped       == { NaN, Num(190) }
CustomTyped     == { NaN, Num(50) }
PageMarginTyped == { NaN, Num(50) }
ImageMarginTyped == { NaN, Num(0) }
PageSizeIds     == { "a4", "custom" }
MaxAdds == 2

\* Mutant: the image margin is left out of the dependencies.
RepackDeps_NoImageMargin == << printImages, effectiveWidth, effectiveHeight, pageMargin >>

\* The dependencies of the repack effect.
RepackDeps == << printImages, effectiveWidth, effectiveHeight, pageMargin, imageMargin >>

\* img.onload of addImageToPrint, for an image of natural size nat.
AddImage(nat) ==
    /\ nextId <= MaxAdds
    /\ printImages' = Append(printImages, NewPrintImage(nextId, nat[1], nat[2]))
    /\ nextId' = nextId + 1
    /\ repackPending' = TRUE
    /\ removedAt' = << >>
    /\ UNCHANGED << pageSize, customWidth, customHeight, pageMargin, imageMargin,
                    currentPageIndex, statePages, isInitializedRef >>
    /\ UNCHANGED << pagesFresh, lastResize, loadingImages, lastEntry, packVars, renderVars >>

AddImageLoaded == \E nat \in NaturalSizes : AddImage(nat)

\* The same, from a gallery whose images all have one natural size.
GallerySizes == { <<800, 400>> }

AddGalleryImage == \E nat \in GallerySizes : AddImage(nat)

\* onChange of the W (mm) input of the k-th listed image.
WidthChange(k, typed) ==
    /\ IF typed = NaN
       THEN UNCHANGED << printImages, repackPending, removedAt >>
       ELSE /\ printImages' = updateImageSize(printImages, printImages[k].id,
                                  Clamp(Mm(5), effectiveWidth - 2 * pageMargin, Mm(typed[1])),
                                  printImages[k].height, TRUE)
            /\ repackPending' = TRUE
            /\ removedAt' = << >>
    /\ UNCHANGED << pageSize, customWidth, customHeight, pageMargin, imageMargin,
                    currentPageIndex, statePages, isInitializedRef, nextId >>
    /\ UNCHANGED << pagesFresh, lastResize, loadingImages, packVars, renderVars >>

\* onChange of the H (mm) input of the k-th listed image.
HeightChange(k, typed) ==
    /\ IF typed = NaN
       THEN UNCHANGED << printImages, repackPending, removedAt >>
       ELSE /\ printImages' = updateImageSize(printImages, printImages[k].id,
                                  printImages[k].width,
                                  Clamp(Mm(5), effectiveHeight - 2 * pageMargin, Mm(typed[1])),
                                  TRUE)
            /\ repackPending' = TRUE
            /\ removedAt' = << >>
    /\ UNCHANGED << pageSize, customWidth, customHeight, pageMargin, imageMargin,
                    currentPageIndex, statePages, isInitializedRef, nextId >>
    /\ UNCHANGED << pagesFresh, lastResize, loadingImages, packVars, renderVars >>

WidthInput ==
    /\ \E k \in 1..Len(printImages), typed \in SizeTyped : WidthChange(k, typed)
    /\ UNCHANGED lastEntry

HeightInput ==
    /\ \E k \in 1..Len(printImages), typed \in SizeTyped : HeightChange(k, typed)
    /\ UNCHANGED lastEntry

\* onClick of the Remove button of a listed image.
RemoveClick ==
    /\ \E k \in 1..Len(printImages) :
           printImages' = removeImage(printImages, printImages[k].id)
    /\ repackPending' = TRUE
    /\ removedAt' = << Len(statePages), currentPageIndex >>
    /\ UNCHANGED << pageSize, customWidth, customHeight, pageMargin, imageMargin,
                    currentPageIndex, statePages, isInitializedRef, nextId >>
    /\ UNCHANGED << pagesFresh, lastResize, loadingImages, lastEntry, packVars, renderVars >>

\* What a change of the page size or of a margin leaves alone; the repack
\* effect becomes due when one of its dependencies changed.
ConfigFrame ==
    /\ UNCHANGED << printImages, currentPageIndex, statePages, isInitializedRef, nextId >>
    /\ repackPending' = (repackPending \/ RepackDeps' # RepackDeps)
    /\ removedAt' = IF << pageSize, customWidth, customHeight, pageMargin, imageMargin >>'
                        = << pageSize, customWidth, customHeight, pageMargin, imageMargin >>
                     THEN removedAt ELSE << >>
    /\ UNCHANGED << pagesFresh, lastResize, loadingImages, packVars, renderVars >>

\* onValueChange of the page size Select.
PageSizeSelect(id) ==
    /\ pageSize' = id
    /\ UNCHANGED << customWidth, customHeight, pageMargin, imageMargin >>
    /\ ConfigFrame

\* onChange of the custom Width (mm) input, shown for the custom size only.
CustomWidthChange(typed) ==
    /\ pageSize = "custom"
    /\ customWidth' = IF typed = NaN THEN customWidth
                      ELSE Clamp(Mm(50), Mm(1000), Mm(typed[1]))
    /\ UNCHANGED << pageSize, customHeight, pageMargin, imageMargin >>
    /\ ConfigFrame

\* onChange of the custom Height (mm) input, shown for the custom size only.
CustomHeightChange(typed) ==
    /\ pageSize = "custom"
    /\ customHeight' = IF typed = NaN THEN customHeight
                       ELSE Clamp(Mm(50), Mm(1000), Mm(typed[1]))
    /\ UNCHANGED << pageSize, customWidth, pageMargin, imageMargin >>
    /\ ConfigFrame

\* onChange of the Page Margin (mm) input.
PageMarginChange(typed) ==
    /\ pageMargin' = IF typed = NaN THEN pageMargin
                     ELSE Clamp(0, Mm(50), Mm(typed[1]))
    /\ UNCHANGED << pageSize, customWidth, customHeight, imageMargin >>
    /\ ConfigFrame

\* onChange of the Image Margin (mm) input.
ImageMarginChange(typed) ==
    /\ imageMargin' = IF typed = NaN THEN imageMargin
                      ELSE Clamp(0, Mm(20), Mm(typed[1]))
    /\ UNCHANGED << pageSize, customWidth, customHeight, pageMargin >>
    /\ ConfigFrame

\* A change of the page size or of a margin.
ConfigChange ==
    /\ \/ \E id \in PageSizeIds : PageSizeSelect(id)
       \/ \E typed \in CustomTyped : CustomWidthChange(typed)
       \/ \E typed \in CustomTyped : CustomHeightChange(typed)
       \/ \E typed \in PageMarginTyped : PageMarginChange(typed)
       \/ \E typed \in ImageMarginTyped : ImageMarginChange(typed)
    /\ UNCHANGED lastEntry

\* What the user types into a number input when the entry may be invalid:
\* nothing numeric, zero, a number above every range.
EntryTyped == { NaN, Num(0), Num(2000) }

\* The last entry made in a number input: the field, what was typed, the
\* stored value before and after the handler, and the input's min and max.
Entry(field, typed, before, after, lo, hi) ==
    << [field |-> field, typed |-> typed, before |-> before, after |-> after,
        lo |-> lo, hi |-> hi] >>

\* An entry in the custom Width (mm) input (min 50, max 1000).
CustomWidthEntry ==
    \E typed \in EntryTyped :
        /\ CustomWidthChange(typed)
        /\ lastEntry' = Entry("customWidth", typed, customWidth, customWidth',
                              Mm(50), Mm(1000))

\* An entry in the custom Height (mm) input (min 50, max 1000).
CustomHeightEntry ==
    \E typed \in EntryTyped :
        /\ CustomHeightChange(typed)
        /\ lastEntry' = Entry("customHeight", typed, customHeight, customHeight',
                              Mm(50), Mm(1000))

\* An entry in the Page Margin (mm) input (min 0, max 50).
PageMarginEntry ==
    \E typed \in EntryTyped :
        /\ PageMarginChange(typed)
        /\ lastEntry' = Entry("pageMargin", typed, pageMargin, pageMargin', 0, Mm(50))

\* An entry in the Image Margin (mm) input (min 0, max 20).
ImageMarginEntry ==
    \E typed \in EntryTyped :
        /\ ImageMarginChange(typed)
        /\ lastEntry' = Entry("imageMargin", typed, imageMargin, imageMargin', 0, Mm(20))

\* An entry in the W (mm) input of a listed image
\* (min 5, max effectiveWidth - 2 * pageMargin).
WidthEntry ==
    \E k \in 1..Len(printImages), typed \in EntryTyped :
        /\ WidthChange(k, typed)
        /\ lastEntry' = Entry("width", typed, printImages[k].width, printImages'[k].width,
                              Mm(5), effectiveWidth - 2 * pageMargin)

\* An entry in the H (mm) input of a listed image
\* (min 5, max effectiveHeight - 2 * pageMargin).
HeightEntry ==
    \E k \in 1..Len(printImages), typed \in EntryTyped :
        /\ HeightChange(k, typed)
        /\ lastEntry' = Entry("height", typed, printImages[k].height, printImages'[k].height,
                              Mm(5), effectiveHeight - 2 * pageMargin)

\* A choice in the page size Select.
PageSizeChoice ==
    /\ \E id \in PageSizeIds : PageSizeSelect(id)
    /\ UNCHANGED lastEntry

\* The repack effect.
RepackEffect ==
    /\ repackPending
    /\ repackPending' = FALSE
    /\ IF ~ isInitializedRef /\ Len(printImages) = 0
       THEN UNCHANGED << statePages, currentPageIndex, isInitializedRef, pagesFresh >>
       ELSE /\ isInitializedRef' = TRUE
            /\ pagesFresh' = TRUE
            /\ \E newPages \in { packImages(printImages, effectiveWidth, effectiveHeight,
                                            pageMargin, imageMargin) } :
                   /\ statePages' = newPages
                   /\ currentPageIndex' = ClampIndex(currentPageIndex, Len(newPages))
    /\ UNCHANGED << pageSize, customWidth, customHeight, pageMargin, imageMargin,
                    printImages, nextId, removedAt >>
    /\ UNCHANGED << lastResize, loadingImages, lastEntry, packVars, renderVars >>

\* onClick of Previous page (shown when pages.length > 1, disabled at index 0).
PreviousPage ==
    /\ Len(statePages) > 1
    /\ currentPageIndex # 0
    /\ currentPageIndex' = Max(0, currentPageIndex - 1)
    /\ removedAt' = << >>
    /\ UNCHANGED << pageSize, customWidth, customHeight, pageMargin, imageMargin,
                    printImages, statePages, isInitializedRef, repackPending, nextId >>
    /\ UNCHANGED << pagesFresh, lastResize, loadingImages, lastEntry, packVars, renderVars >>

\* onClick of Next page (shown when pages.length > 1, disabled on the last page).
NextPage ==
    /\ Len(statePages) > 1
    /\ currentPageIndex # Len(statePages) - 1
    /\ currentPageIndex' = Min(Len(statePages) - 1, currentPageIndex + 1)
    /\ removedAt' = << >>
    /\ UNCHANGED << pageSize, customWidth, customHeight, pageMargin, imageMargin,
                    printImages, statePages, isInitializedRef, repackPending, nextId >>
    /\ UNCHANGED << pagesFresh, lastResize, loadingImages, lastEntry, packVars, renderVars >>

\* updateImageSize called with any of a few widths and heights, the stored
\* ones among them, with and without maintainAspect.
ResizeMm == { 50, 100 }

ResizeCall ==
    /\ \E k \in 1..Len(printImages) :
       \E width \in { Mm(v) : v \in ResizeMm } \cup { printImages[k].width },
          height \in { Mm(v) : v \in ResizeMm } \cup { printImages[k].height },
          maintainAspect \in BOOLEAN :
           /\ printImages' = updateImageSize(printImages, printImages[k].id,
                                             width, height, maintainAspect)
           /\ lastResize' = << [imageId |-> printImages[k].id, width |-> width,
                                height |-> height, maintainAspect |-> maintainAspect,
                                before |-> printImages[k]] >>
    /\ repackPending' = TRUE
    /\ removedAt' = << >>
    /\ UNCHANGED << pageSize, customWidth, customHeight, pageMargin, imageMargin,
                    currentPageIndex, statePages, isInitializedRef, nextId >>
    /\ UNCHANGED << pagesFresh, lastEntry, loadingImages, packVars, renderVars >>

\* addImageToPrint(sourceImage): an Image is created and its load started;
\* nothing is stored until it completes.
AddClick ==
    /\ Len(loadingImages) + nextId - 1 < MaxAdds
    /\ \E nat \in NaturalSizes :
           loadingImages' = Append(loadingImages,
                                   [nat |-> nat, startedWith |-> printImages])
    /\ UNCHANGED << pageSize, customWidth, customHeight, pageMargin, imageMargin,
                    printImages, currentPageIndex, statePages, isInitializedRef,
                    repackPending, pagesFresh, nextId, removedAt, lastResize, lastEntry >>
    /\ UNCHANGED << packVars, renderVars >>

\* A sequence without its k-th element.
Without(seq, k) == SubSeq(seq, 1, k - 1) \o SubSeq(seq, k + 1, Len(seq))

\* Mutant: the new image is appended to the list as it was when the load
\* started, not to the list the updater receives.
LoadComplete_FromSnapshot ==
    /\ \E k \in 1..Len(loadingImages) :
           /\ printImages' = Append(loadingImages[k].startedWith,
                                    NewPrintImage(nextId, loadingImages[k].nat[1],
                                                  loadingImages[k].nat[2]))
           /\ loadingImages' = Without(loadingImages, k)
    /\ nextId' = nextId + 1
    /\ repackPending' = TRUE
    /\ removedAt' = << >>
    /\ UNCHANGED << pageSize, customWidth, customHeight, pageMargin, imageMargin,
                    currentPageIndex, statePages, isInitializedRef,
                    pagesFresh, lastResize, lastEntry >>
    /\ UNCHANGED << packVars, renderVars >>

\* img.onload of a load in flight: setPrintImages((prev) => [...prev, new]).
LoadComplete ==
    /\ \E k \in 1..Len(loadingImages) :
           /\ printImages' = Append(printImages,
                                    NewPrintImage(nextId, loadingImages[k].nat[1],
                                                  loadingImages[k].nat[2]))
           /\ loadingImages' = Without(loadingImages, k)
    /\ nextId' = nextId + 1
    /\ repackPending' = TRUE
    /\ removedAt' = << >>
    /\ UNCHANGED << pageSize, customWidth, customHeight, pageMargin, imageMargin,
                    currentPageIndex, statePages, isInitializedRef,
                    pagesFresh, lastResize, lastEntry >>
    /\ UNCHANGED << packVars, renderVars >>

\* A load in flight fails: the Image has no onerror handler, nothing is stored.
LoadError ==
    /\ \E k \in 1..Len(loadingImages) : loadingImages' = Without(loadingImages, k)
    /\ UNCHANGED << pageSize, customWidth, customHeight, pageMargin, imageMargin,
                    printImages, currentPageIndex, statePages, isInitializedRef,
                    repackPending, pagesFresh, nextId, removedAt, lastResize, lastEntry >>
    /\ UNCHANGED << packVars, renderVars >>

(***************************************************************************)
(* Cut marks.  Canvas coordinates are in upx (millionths of a pixel); PDF  *)
(* and print coordinates are lengths in mm, in the model's length unit.   *)
(***************************************************************************)
CUT_MARKER_LENGTH == Mm(5)

\* 3.7795275591 px per mm, as whole upx per length unit.
MM_TO_PX == 62992

Px(n) == n * 1000000

\* The images of a sequence of pages, each with the index of its page.
RECURSIVE PlacedFrom(_, _)
PlacedFrom(pgs, k) ==
    IF k > Len(pgs) THEN << >>
    ELSE [j \in 1..Len(pgs[k].images) |-> [pageIdx |-> k - 1, packedImg |-> pgs[k].images[j]]]
         \o PlacedFrom(pgs, k + 1)

\* markerLen of drawPackedImage.
CanvasMarkerLen(im, scale) ==
    LET maxMarkerLen == Max(0, (im * scale) \div 2 - Px(1))
    IN  Min(CUT_MARKER_LENGTH * scale, Max(Px(2), maxMarkerLen))

\* The paths drawPackedImage strokes for one image: each is moveTo, lineTo, lineTo.
drawPackedImage(packedImg, scale, im) ==
    LET x    == packedImg.x * scale
        y    == packedImg.y * scale
        imgW == packedImg.image.width * scale
        imgH == packedImg.image.height * scale
        w    == IF packedImg.rotated THEN imgH ELSE imgW
        h    == IF packedImg.rotated THEN imgW ELSE imgH
        markerLen == CanvasMarkerLen(im, scale)
    IN  IF markerLen > Px(1)
        THEN << << <<x - markerLen, y>>,         <<x, y>>,         <<x, y - markerLen>> >>,
                << <<x + w + markerLen, y>>,     <<x + w, y>>,     <<x + w, y - markerLen>> >>,
                << <<x - markerLen, y + h>>,     <<x, y + h>>,     <<x, y + h + markerLen>> >>,
                << <<x + w + markerLen, y + h>>, <<x + w, y + h>>, <<x + w, y + h + markerLen>> >> >>
        ELSE << >>

\* markerLen of downloadPdf and of handlePrint.
MarkerLenMm(im) == Min(CUT_MARKER_LENGTH, Max(Mm(1), im \div 2 - Unit \div 2))

\* The pdf.line calls of downloadPdf for one image: << x1, y1, x2, y2 >>.
PdfLines(packedImg, im) ==
    LET imgW == packedImg.image.width
        imgH == packedImg.image.height
        markerLen == MarkerLenMm(im)
        x == packedImg.x
        y == packedImg.y
        w == IF packedImg.rotated THEN imgH ELSE imgW
        h == IF packedImg.rotated THEN imgW ELSE imgH
    IN  IF markerLen > Unit \div 2
        THEN << <<x - markerLen, y, x, y>>,         <<x, y - markerLen, x, y>>,
                <<x + w, y, x + w + markerLen, y>>, <<x + w, y - markerLen, x + w, y>>,
                <<x - markerLen, y + h, x, y + h>>, <<x, y + h, x, y + h + markerLen>>,
                <<x + w, y + h, x + w + markerLen, y + h>>,
                <<x + w, y + h, x + w, y + h + markerLen>> >>
        ELSE << >>

\* The cut-marker divs handlePrint appends to the container of one image.
PrintMarkers(packedImg, im) ==
    LET imgW == packedImg.image.width
        imgH == packedImg.image.height
        w == IF packedImg.rotated THEN imgH ELSE imgW
        h == IF packedImg.rotated THEN imgW ELSE imgH
        markerLen == MarkerLenMm(im)
        markerThickness == Unit \div 5
        halfThickness == markerThickness \div 2
    IN  IF markerLen > Unit \div 2
        THEN << [left |-> -markerLen, top |-> -halfThickness,
                 width |-> markerLen, height |-> markerThickness],
                [left |-> -halfThickness, top |-> -markerLen,
                 width |-> markerThickness, height |-> markerLen],
                [left |-> w, top |-> -halfThickness,
                 width |-> markerLen, height |-> markerThickness],
                [left |-> w - halfThickness, top |-> -markerLen,
                 width |-> markerThickness, height |-> markerLen],
                [left |-> -markerLen, top |-> h - halfThickness,
                 width |-> markerLen, height |-> markerThickness],
                [left |-> -halfThickness, top |-> h,
                 width |-> markerThickness, height |-> markerLen],
                [left |-> w, top |-> h - halfThickness,
                 width |-> markerLen, height |-> markerThickness],
                [left |-> w - halfThickness, top |-> h,
                 width |-> markerThickness, height |-> markerLen] >>
        ELSE << >>

RECURSIVE Concat(_, _)
Concat(seqs, k) == IF k > Len(seqs) THEN << >> ELSE seqs[k] \o Concat(seqs, k + 1)

\* The marks of the placed images whose source image loaded, in page order.
\* marksFor[k] is what the renderer emits for placed[k].
MarksOf(placed, loaded, marksFor) ==
    Concat([k \in 1..Len(placed) |->
               IF placed[k].packedImg.image.id \in loaded
               THEN LET m == marksFor[k]
                    IN  [j \in 1..Len(m) |-> [id |-> placed[k].packedImg.image.id,
                                              pageIdx |-> placed[k].pageIdx, mark |-> m[j]]]
               ELSE << >>], 1)

PlacedIds(placed) == { placed[k].packedImg.image.id : k \in 1..Len(placed) }

\* The preview effect: the images of the current page are loaded and those
\* that load are drawn with their cut marks.
RenderPreview ==
    /\ ~ repackPending
    /\ LET shown == IF currentPageIndex + 1 \in 1..Len(statePages)
                    THEN SelectSeq(PlacedFrom(statePages, 1),
                                   LAMBDA pl : pl.pageIdx = currentPageIndex)
                    ELSE << >>
       IN  \E loaded \in SUBSET PlacedIds(shown) :
               canvasMarks' = MarksOf(shown, loaded,
                                      [k \in 1..Len(shown) |->
                                          drawPackedImage(shown[k].packedImg, MM_TO_PX,
                                                          imageMargin)])
    /\ rendered' = rendered \cup {"canvas"}
    /\ UNCHANGED << pdfMarks, printMarks, loadVars, packVars, layoutVars >>

\* downloadPdf: every page; an image that fails to load is skipped.
DownloadPdf ==
    /\ ~ repackPending
    /\ Len(statePages) # 0
    /\ LET placed == PlacedFrom(statePages, 1)
       IN  \E loaded \in SUBSET PlacedIds(placed) :
               pdfMarks' = MarksOf(placed, loaded,
                                   [k \in 1..Len(placed) |->
                                       PdfLines(placed[k].packedImg, imageMargin)])
    /\ rendered' = rendered \cup {"pdf"}
    /\ UNCHANGED << canvasMarks, printMarks, loadVars, packVars, layoutVars >>

\* handlePrint: every page; the markers do not depend on the image loading.
HandlePrint ==
    /\ ~ repackPending
    /\ Len(statePages) # 0
    /\ LET placed == PlacedFrom(statePages, 1)
       IN  printMarks' = MarksOf(placed, PlacedIds(placed),
                                 [k \in 1..Len(placed) |->
                                     PrintMarkers(placed[k].packedImg, imageMargin)])
    /\ rendered' = rendered \cup {"print"}
    /\ UNCHANGED << canvasMarks, pdfMarks, loadVars, packVars, layoutVars >>

(***************************************************************************)
(* The preview effect step by step: each run loads the images of the       *)
(* current page, and each load callback draws its image when it arrives.   *)
(***************************************************************************)
MaxRenders == 3

\* The dependencies of the preview effect other than the identity of `pages`.
PreviewDeps == << currentPageIndex, effectiveWidth, effectiveHeight, pageMargin, imageMargin >>

\* The preview effect is due: it has not run yet, or a dependency changed.
PreviewDue ==
    IF Len(previewRuns) = 0 \/ pagesFresh THEN TRUE
    ELSE previewRuns[Len(previewRuns)].deps # PreviewDeps

\* pages[currentPageIndex]?.images
CurrentPageImages ==
    IF currentPageIndex + 1 \in 1..Len(statePages)
    THEN statePages[currentPageIndex + 1].images
    ELSE << >>

IdsOf(packed) == { packed[k].image.id : k \in 1..Len(packed) }

\* The cleanup of the previous run, the canvas reset, and a new run that
\* starts one load per image of the current page.
PreviewEffect ==
    /\ PreviewDue
    /\ Len(previewRuns) < MaxRenders
    /\ previewRuns' =
           Append([g \in 1..Len(previewRuns) |->
                      IF g = Len(previewRuns)
                      THEN [previewRuns[g] EXCEPT !.cancelled = TRUE]
                      ELSE previewRuns[g]],
                  [deps      |-> PreviewDeps,
                   images    |-> CurrentPageImages,
                   im        |-> imageMargin,
                   cancelled |-> FALSE,
                   pending   |-> IdsOf(CurrentPageImages),
                   failed    |-> {}])
    /\ canvasDrawn' = << >>
    /\ canvasMarks' = << >>
    /\ pagesFresh' = FALSE
    /\ UNCHANGED << pageSize, customWidth, customHeight, pageMargin, imageMargin,
                    printImages, currentPageIndex, statePages, isInitializedRef,
                    repackPending, nextId, removedAt, lastResize, loadingImages, lastEntry >>
    /\ UNCHANGED << lastLoad, pdfJob, printJob, pdfMarks, printMarks, rendered, packVars >>

\* Mutant: the load callback does not look at the flag.
PreviewCancelled_Ignored(run) == FALSE

\* if (cancelled) in img.onload
PreviewCancelled(run) == run.cancelled

\* The packed image with the given id among those a run loads.
PackedOf(packed, id) == packed[CHOOSE k \in 1..Len(packed) : packed[k].image.id = id]

\* img.onload (ok) or img.onerror of one image of run g.
PreviewLoad(g, id, ok) ==
    /\ g \in 1..Len(previewRuns)
    /\ id \in previewRuns[g].pending
    /\ LET run  == previewRuns[g]
           drew == ok /\ ~ PreviewCancelled(run)
           m    == drawPackedImage(PackedOf(run.images, id), MM_TO_PX, run.im)
       IN  /\ previewRuns' = [previewRuns EXCEPT ![g].pending = @ \ {id},
                                                 ![g].failed = IF ok THEN @ ELSE @ \cup {id}]
           /\ canvasDrawn' = IF drew THEN Append(canvasDrawn, [gen |-> g, id |-> id])
                             ELSE canvasDrawn
           /\ canvasMarks' = IF drew
                             THEN canvasMarks \o [j \in 1..Len(m) |->
                                      [id |-> id, pageIdx |-> run.deps[1], mark |-> m[j]]]
                             ELSE canvasMarks
           /\ lastLoad' = << [gen |-> g, id |-> id, ok |-> ok, drew |-> drew,
                              latest |-> Len(previewRuns)] >>
    /\ UNCHANGED << pdfJob, printJob, pdfMarks, printMarks, rendered, packVars, layoutVars >>

PreviewImageLoaded ==
    \E g \in 1..Len(previewRuns) : \E id \in previewRuns[g].pending : PreviewLoad(g, id, TRUE)

PreviewImageFailed ==
    \E g \in 1..Len(previewRuns) : \E id \in previewRuns[g].pending : PreviewLoad(g, id, FALSE)

(***************************************************************************)
(* downloadPdf step by step: one image load at a time, each awaited.       *)
(***************************************************************************)
\* The number of pages the document has: the one new jsPDF creates and one
\* per pdf.addPage.
DocPages(doc) == Cardinality({ k \in 1..Len(doc) : doc[k].op \in {"newDoc", "addPage"} })

\* Mutant: the loops read the component's current pages and page size, not
\* the ones the callback was created with.
RECURSIVE PdfAdvance_LivePages(_)
PdfAdvance_LivePages(job) ==
    IF job.pageIdx + 1 <= Len(statePages)
       /\ job.imgIdx <= Len(job.pages[job.pageIdx + 1].images)
    THEN [job EXCEPT !.inflight = { << job.pageIdx, job.imgIdx >> }]
    ELSE IF job.pageIdx + 1 < Len(statePages) /\ job.pageIdx + 1 < Len(job.pages)
    THEN PdfAdvance_LivePages(
             [job EXCEPT !.pageIdx = @ + 1, !.imgIdx = 1,
                         !.doc = Append(@, [op |-> "addPage",
                                            pageIdx |-> job.pageIdx + 1, id |-> 0,
                                            format |-> << effectiveWidth,
                                                          effectiveHeight >>])])
    ELSE [job EXCEPT !.saved = TRUE,
                     !.doc = Append(@, [op |-> "save", pageIdx |-> job.pageIdx, id |-> 0])]

\* Mutant: the loop moves to the next Page without calling pdf.addPage.
RECURSIVE PdfAdvance_NoAddPage(_)
PdfAdvance_NoAddPage(job) ==
    IF job.imgIdx <= Len(job.pages[job.pageIdx + 1].images)
    THEN [job EXCEPT !.inflight = { << job.pageIdx, job.imgIdx >> }]
    ELSE IF job.pageIdx + 1 < Len(job.pages)
    THEN PdfAdvance_NoAddPage([job EXCEPT !.pageIdx = @ + 1, !.imgIdx = 1])
    ELSE [job EXCEPT !.saved = TRUE,
                     !.doc = Append(@, [op |-> "save", pageIdx |-> job.pageIdx, id |-> 0])]

\* The loops of downloadPdf from the current position up to the next await:
\* start the load of the next image, opening document pages on the way, or
\* save the document when no image is left.
RECURSIVE PdfAdvance(_)
PdfAdvance(job) ==
    IF job.imgIdx <= Len(job.pages[job.pageIdx + 1].images)
    THEN [job EXCEPT !.inflight = { << job.pageIdx, job.imgIdx >> }]
    ELSE IF job.pageIdx + 1 < Len(job.pages)
    THEN PdfAdvance([job EXCEPT !.pageIdx = @ + 1, !.imgIdx = 1,
                                !.doc = Append(@, [op |-> "addPage",
                                                   pageIdx |-> job.pageIdx + 1, id |-> 0,
                                                   format |-> << job.width, job.height >>])])
    ELSE [job EXCEPT !.saved = TRUE,
                     !.doc = Append(@, [op |-> "save", pageIdx |-> job.pageIdx, id |-> 0])]

\* onClick of Download PDF (disabled when there are no pages).
StartPdf ==
    /\ pdfJob = << >>
    /\ Len(statePages) # 0
    /\ pdfJob' = << PdfAdvance([pages    |-> statePages,
                                im       |-> imageMargin,
                                pageIdx  |-> 0,
                                imgIdx   |-> 1,
                                width    |-> effectiveWidth,
                                height   |-> effectiveHeight,
                                doc      |-> << [op |-> "newDoc", pageIdx |-> 0, id |-> 0,
                                                 format |-> << effectiveWidth,
                                                               effectiveHeight >>] >>,
                                inflight |-> {},
                                failed   |-> {},
                                saved    |-> FALSE]) >>
    /\ pdfMarks' = << >>
    /\ UNCHANGED << canvasMarks, printMarks, rendered, previewRuns, canvasDrawn, lastLoad,
                    printJob, packVars, layoutVars >>

\* The awaited loadImageAsDataUrl settles: the image and its cut marks are
\* added (ok), or the catch block logs the error; then the loops go on.
PdfSettle(ok) ==
    /\ pdfJob # << >>
    /\ pdfJob[1].inflight # {}
    /\ LET job == pdfJob[1]
           packedImg == job.pages[job.pageIdx + 1].images[job.imgIdx]
           m == PdfLines(packedImg, job.im)
           done == IF ok
                   THEN [job EXCEPT !.doc = Append(@, [op |-> "addImage",
                                                       pageIdx |-> job.pageIdx,
                                                       on |-> DocPages(job.doc) - 1,
                                                       id |-> packedImg.image.id])]
                   ELSE [job EXCEPT !.failed = @ \cup { packedImg.image.id }]
       IN  /\ pdfJob' = << PdfAdvance([done EXCEPT !.imgIdx = @ + 1, !.inflight = {}]) >>
           /\ pdfMarks' = IF ok
                          THEN pdfMarks \o [j \in 1..Len(m) |->
                                   [id |-> packedImg.image.id, pageIdx |-> job.pageIdx,
                                    mark |-> m[j]]]
                          ELSE pdfMarks
    /\ UNCHANGED << canvasMarks, printMarks, rendered, previewRuns, canvasDrawn, lastLoad,
                    printJob, packVars, layoutVars >>

PdfImageLoaded == PdfSettle(TRUE)

\* Mutant: the error is not caught and ends the export.
PdfImageFailed_Aborts ==
    /\ pdfJob # << >>
    /\ pdfJob[1].inflight # {}
    /\ pdfJob' = << [pdfJob[1] EXCEPT !.inflight = {},
                                      !.failed = @ \cup { pdfJob[1].pages[pdfJob[1].pageIdx + 1]
                                                              .images[pdfJob[1].imgIdx].image.id }] >>
    /\ UNCHANGED << canvasMarks, pdfMarks, printMarks, rendered, previewRuns, canvasDrawn,
                    lastLoad, printJob, packVars, layoutVars >>

PdfImageFailed == PdfSettle(FALSE)

(***************************************************************************)
(* handlePrint step by step: the document is built at once, then every     *)
(* image element is waited for, then the print dialog opens.               *)
(***************************************************************************)
\* The elements handlePrint appends to the body for the pages from k on.
RECURSIVE PrintDocFrom(_, _)
PrintDocFrom(pgs, k) ==
    IF k > Len(pgs) THEN << >>
    ELSE << [op |-> "page", pageIdx |-> k - 1, id |-> 0] >>
         \o [j \in 1..Len(pgs[k].images) |->
                [op |-> "image", pageIdx |-> k - 1, id |-> pgs[k].images[j].image.id]]
         \o PrintDocFrom(pgs, k + 1)

\* await Promise.all(...) has resolved: every image element loaded or failed.
PrintReady(job) == job.pending = {}

\* onClick of Print (disabled when there are no pages), up to the await.  An
\* image element may be complete already.
StartPrint ==
    /\ printJob = << >>
    /\ Len(statePages) # 0
    /\ LET placed == PlacedFrom(statePages, 1)
       IN  /\ \E complete \in SUBSET PlacedIds(placed) :
                  printJob' = << [pages   |-> statePages,
                                  doc     |-> PrintDocFrom(statePages, 1),
                                  pending |-> PlacedIds(placed) \ complete,
                                  failed  |-> {},
                                  opened  |-> FALSE] >>
           /\ printMarks' = MarksOf(placed, PlacedIds(placed),
                                    [k \in 1..Len(placed) |->
                                        PrintMarkers(placed[k].packedImg, imageMargin)])
    /\ UNCHANGED << canvasMarks, pdfMarks, rendered, previewRuns, canvasDrawn, lastLoad,
                    pdfJob, packVars, layoutVars >>

\* img.onload (ok) or img.onerror of one image element of the print document.
PrintSettle(id, ok) ==
    /\ printJob # << >>
    /\ id \in printJob[1].pending
    /\ printJob' = << [printJob[1] EXCEPT !.pending = @ \ {id},
                                          !.failed = IF ok THEN @ ELSE @ \cup {id}] >>
    /\ UNCHANGED << canvasMarks, pdfMarks, printMarks, rendered, previewRuns, canvasDrawn,
                    lastLoad, pdfJob, packVars, layoutVars >>

PrintImageLoaded == \E id \in PlacedIds(PlacedFrom(statePages, 1)) \cup
                                 (IF printJob = << >> THEN {} ELSE printJob[1].pending) :
                        PrintSettle(id, TRUE)

PrintImageFailed == \E id \in PlacedIds(PlacedFrom(statePages, 1)) \cup
                                 (IF printJob = << >> THEN {} ELSE printJob[1].pending) :
                        PrintSettle(id, FALSE)

\* The 100 ms timer after the await fires: iframe.contentWindow.print().
PrintOpen ==
    /\ printJob # << >>
    /\ ~ printJob[1].opened
    /\ PrintReady(printJob[1])
    /\ printJob' = << [printJob[1] EXCEPT !.opened = TRUE] >>
    /\ UNCHANGED << canvasMarks, pdfMarks, printMarks, rendered, previewRuns, canvasDrawn,
                    lastLoad, pdfJob, packVars, layoutVars >>

InitLayoutVars ==
    /\ pageSize = "a4"
    /\ customWidth = Mm(210)
    /\ customHeight = Mm(297)
    /\ pageMargin = DEFAULT_PAGE_MARGIN
    /\ imageMargin = DEFAULT_IMAGE_MARGIN
    /\ printImages = << >>
    /\ currentPageIndex = 0
    /\ statePages = << >>
    /\ isInitializedRef = FALSE
    /\ repackPending = FALSE
    /\ pagesFresh = FALSE
    /\ nextId = 1
    /\ removedAt = << >>
    /\ lastResize = << >>
    /\ loadingImages = << >>
    /\ lastEntry = << >>

InitRenderVars ==
    /\ canvasMarks = << >>
    /\ pdfMarks = << >>
    /\ printMarks = << >>
    /\ rendered = {}
    /\ previewRuns = << >>
    /\ canvasDrawn = << >>
    /\ lastLoad = << >>
    /\ pdfJob = << >>
    /\ printJob = << >>

InitPackVars ==
    /\ pc = "idle"
    /\ images = << >>
    /\ cfg = ConfigOf(<<210, 297, 10, 5>>)
    /\ remainingImages = << >>
    /\ pages = << >>
    /\ page = [images |-> << >>]
    /\ freeRects = << >>
    /\ placedIds = {}
    /\ idx = 1
    /\ placedRects = << >>
    /\ fallbackIds = {}
    /\ passes = 0
    /\ refResult = << >>
    /\ refInput = << >>
    /\ prevInput = << >>
    /\ lastTry = << >>

InitPack == InitPackVars /\ InitLayoutVars /\ InitRenderVars

NextPack == Call \/ NewPage \/ TryImage \/ EndPass \/ Return

SpecPack == InitPack /\ [][NextPack]_vars

(***************************************************************************)
(* Repeated invocations: packImages is called again and again, the values  *)
(* its locals and its packer had at the end of one call still being there  *)
(* when the next call starts.                                              *)
(***************************************************************************)
MaxDetImages == 2

DetDims == { <<40, 25>>, <<48, 38>> }
DetConfigsMm == { <<50, 60, 0, 0>>, <<50, 60, 5, 5>> }

DetInputs ==
    { [images |-> l, cfg |-> ConfigOf(t)] : l \in ImageLists(DetDims, MaxDetImages),
                                            t \in DetConfigsMm }

CallAgain ==
    \E input \in DetInputs :
        /\ CallWith(input)
        /\ refInput' = IF refInput = << >> THEN << input >> ELSE refInput
        /\ prevInput' = IF pc = "returned" THEN << [images |-> images, cfg |-> cfg] >>
                        ELSE prevInput

NextDet == CallAgain \/ NewPage \/ TryImage \/ EndPass \/ Return

SpecDet == InitPack /\ [][NextDet]_vars

\* Lists of up to four equal square images on an A4 page with a 10 mm page
\* margin, with and without an image margin.
MaxSquares == 4
SquareSides == { 50, 85, 100, 300 }
SquareMargins == { 0, 5 }

Squares(n, side) == [k \in 1..n |-> [id |-> k, width |-> Mm(side), height |-> Mm(side)]]

SquareInputs ==
    { [images |-> Squares(n, side), cfg |-> ConfigOf(<<210, 297, 10, im>>)] :
          n \in 1..MaxSquares, side \in SquareSides, im \in SquareMargins }

\* One invocation of packImages on a list of squares.
CallSquares ==
    /\ pc = "idle"
    /\ \E input \in SquareInputs : CallWith(input)
    /\ UNCHANGED << refInput, prevInput >>

NextSquares == CallSquares \/ NewPage \/ TryImage \/ EndPass \/ Return

SpecSquares == InitPack /\ [][NextSquares]_vars

(***************************************************************************)
(* The component in use: events in any order, the repack effect after them.*)
(***************************************************************************)
InitLayout == InitPackVars /\ InitLayoutVars /\ InitRenderVars

NextLayout ==
    AddGalleryImage \/ WidthInput \/ HeightInput \/ RemoveClick \/ ConfigChange
        \/ RepackEffect \/ PreviousPage \/ NextPage

SpecLayout == InitLayout /\ [][NextLayout]_vars

(***************************************************************************)
(* updateImageSize as a function of its arguments, on images as            *)
(* addImageToPrint creates them.                                           *)
(***************************************************************************)
NextResize == AddImageLoaded \/ ResizeCall

SpecResize == InitLayout /\ [][NextResize]_vars

\* The image list under loads that complete in any order between removals
\* and resizes.
NextList == AddClick \/ LoadComplete \/ LoadError \/ RemoveClick \/ ResizeCall

SpecList == InitLayout /\ [][NextList]_vars

\* The first image is added to the print list.
AddFirstImage ==
    /\ Len(printImages) = 0
    /\ AddGalleryImage

\* The number inputs of the layout panel, with one image listed.
NextInputs ==
    \/ AddFirstImage
    \/ PageSizeChoice
    \/ CustomWidthEntry
    \/ CustomHeightEntry
    \/ PageMarginEntry
    \/ ImageMarginEntry
    \/ WidthEntry
    \/ HeightEntry

SpecInputs == InitLayout /\ [][NextInputs]_vars

(***************************************************************************)
(* The renderers, on layouts the component has settled in: one or two A4   *)
(* pages of images, with every image margin the margin input lets through. *)
(***************************************************************************)
MAX_IMAGE_MARGIN == 20

MarkMargins == { Mm(v) : v \in 0..MAX_IMAGE_MARGIN }

MarkImages ==
    LET a == NewPrintImage(1, 800, 400)
        b == NewPrintImage(2, 800, 400)
        c == NewPrintImage(2, 300, 900)
    IN  { << a >>,
          << a, c >>,
          updateImageSize(updateImageSize(<< a, b >>, 1, Mm(190), a.height, TRUE),
                          2, Mm(190), b.height, TRUE) }

InitMarks ==
    /\ InitPackVars
    /\ InitRenderVars
    /\ pageSize = "a4"
    /\ customWidth = Mm(210)
    /\ customHeight = Mm(297)
    /\ pageMargin = DEFAULT_PAGE_MARGIN
    /\ imageMargin \in MarkMargins
    /\ printImages \in MarkImages
    /\ statePages = packImages(printImages, effectiveWidth, effectiveHeight,
                               pageMargin, imageMargin)
    /\ currentPageIndex \in 0..(Len(statePages) - 1)
    /\ isInitializedRef = TRUE
    /\ repackPending = FALSE
    /\ pagesFresh = TRUE
    /\ nextId = Len(printImages) + 1
    /\ removedAt = << >>
    /\ lastResize = << >>
    /\ loadingImages = << >>
    /\ lastEntry = << >>

NextMarks == RenderPreview \/ DownloadPdf \/ HandlePrint

SpecMarks == InitMarks /\ [][NextMarks]_vars

(***************************************************************************)
(* The preview while the layout changes: images are added, resized and     *)
(* removed, pages are turned, and image loads arrive in any order.         *)
(***************************************************************************)
\* A layout the component has settled in, its preview not yet drawn.
InitSettled ==
    /\ InitPackVars
    /\ InitRenderVars
    /\ pageSize = "a4"
    /\ customWidth = Mm(210)
    /\ customHeight = Mm(297)
    /\ pageMargin = DEFAULT_PAGE_MARGIN
    /\ imageMargin = DEFAULT_IMAGE_MARGIN
    /\ printImages \in MarkImages
    /\ statePages = packImages(printImages, effectiveWidth, effectiveHeight,
                               pageMargin, imageMargin)
    /\ currentPageIndex = 0
    /\ isInitializedRef = TRUE
    /\ repackPending = FALSE
    /\ pagesFresh = TRUE
    /\ nextId = Len(printImages) + 1
    /\ removedAt = << >>
    /\ lastResize = << >>
    /\ loadingImages = << >>
    /\ lastEntry = << >>

\* onChange of the Image Margin (mm) input alone.
ImageMarginInput ==
    /\ \E typed \in ImageMarginTyped : ImageMarginChange(typed)
    /\ UNCHANGED lastEntry

NextPreview ==
    RemoveClick \/ ImageMarginInput \/ RepackEffect \/ PreviousPage \/ NextPage
        \/ PreviewEffect \/ PreviewImageLoaded \/ PreviewImageFailed

SpecPreview == InitSettled /\ [][NextPreview]_vars

(***************************************************************************)
(* The three renderers at work on a settled layout, their image loads      *)
(* succeeding or failing in any order, while images are removed.           *)
(***************************************************************************)
NextRender ==
    RemoveClick \/ RepackEffect \/ PreviewEffect \/ PreviewImageLoaded \/ PreviewImageFailed
        \/ StartPdf \/ PdfImageLoaded \/ PdfImageFailed
        \/ StartPrint \/ PrintImageLoaded \/ PrintImageFailed \/ PrintOpen

SpecRender == InitSettled /\ [][NextRender]_vars

\* The same without changes of the layout: every image load of an export
\* settles and every timer fires.
NextExport ==
    PreviewEffect \/ PreviewImageLoaded \/ PreviewImageFailed
        \/ StartPdf \/ PdfImageLoaded \/ PdfImageFailed
        \/ StartPrint \/ PrintImageLoaded \/ PrintImageFailed \/ PrintOpen

SpecExport == InitSettled /\ [][NextExport]_vars

FairSpecExport ==
    SpecExport /\ WF_vars(PdfImageLoaded \/ PdfImageFailed)
               /\ WF_vars(PrintImageLoaded \/ PrintImageFailed)
               /\ WF_vars(PrintOpen)

\* A PDF export in flight while images are removed and the page size and the
\* margins are changed.
NextLiveExport ==
    \/ StartPdf
    \/ PdfImageLoaded
    \/ PdfImageFailed
    \/ RemoveClick
    \/ ConfigChange
    \/ RepackEffect

SpecLiveExport == InitSettled /\ [][NextLiveExport]_vars

\* The step-by-step run of packImages returns what packImages, composed as a
\* function from the same loop bodies, returns.
StepsAgreeWithFunction ==
    pc = "returned" =>
        pages = packImages(images, cfg.pageWidth, cfg.pageHeight,
                           cfg.pageMargin, cfg.imageMargin)

\* packImages runs to completion once called.
FairSpecPack == SpecPack /\ WF_vars(NewPage \/ TryImage \/ EndPass \/ Return)

(***************************************************************************)
(* Properties of packImages                                                *)
(***************************************************************************)
\* The (page, position) pairs of the returned Page[].
Slots == UNION { { <<p, k>> : k \in 1..Len(pages[p].images) } : p \in 1..Len(pages) }
PackedImageAt(s) == pages[s[1]].images[s[2]]

\* Footprint of a PackedImage: (width, height), swapped when rotated.
FootW(pi) == IF pi.rotated THEN pi.image.height ELSE pi.image.width
FootH(pi) == IF pi.rotated THEN pi.image.width ELSE pi.image.height

\* C1 (completeness): when packImages returns, every input image is the image
\* of exactly one PackedImage of the returned pages, and every PackedImage
\* holds an input image.
C1_Completeness ==
    pc = "returned" =>
        /\ \A k \in 1..Len(images) :
               Cardinality({ s \in Slots : PackedImageAt(s).image.id = images[k].id }) = 1
        /\ \A s \in Slots : \E k \in 1..Len(images) : PackedImageAt(s).image = images[k]

C1_Witness ==
    /\ pc = "returned"
    /\ Len(images) = 3
    /\ Len(pages) = 2
    /\ Len(pages[1].images) = 2
    /\ fallbackIds # {}

\* C2 (no overlap): on every returned page two distinct PackedImages are
\* separated by at least imageMargin along the x axis or along the y axis,
\* i.e. their margin-inflated bounding boxes share no interior point.
Separated(a, b, m) ==
    \/ a.x + FootW(a) + m <= b.x
    \/ b.x + FootW(b) + m <= a.x
    \/ a.y + FootH(a) + m <= b.y
    \/ b.y + FootH(b) + m <= a.y

C2_NoOverlap ==
    pc = "returned" =>
        \A s, t \in Slots :
            (s[1] = t[1] /\ s[2] # t[2]) =>
                Separated(PackedImageAt(s), PackedImageAt(t), cfg.imageMargin)

C2_Witness ==
    /\ pc = "returned"
    /\ cfg.imageMargin > 0
    /\ \E p \in 1..Len(pages) :
           /\ Len(pages[p].images) = 3
           /\ \E k \in 1..3 : pages[p].images[k].rotated

\* C3 (containment): a PackedImage placed through findPosition/place lies
\* inside the printable area; one pushed by the oversized-image branch is
\* anchored at (pageMargin, pageMargin).
C3_Containment ==
    pc = "returned" =>
        \A s \in Slots :
            LET pi == PackedImageAt(s)
            IN  IF pi.image.id \in fallbackIds
                THEN pi.x = cfg.pageMargin /\ pi.y = cfg.pageMargin
                ELSE /\ cfg.pageMargin <= pi.x
                     /\ pi.x + FootW(pi) <= cfg.pageWidth - cfg.pageMargin
                     /\ cfg.pageMargin <= pi.y
                     /\ pi.y + FootH(pi) <= cfg.pageHeight - cfg.pageMargin

C3_Witness ==
    /\ pc = "returned"
    /\ cfg.pageMargin > 0
    /\ \E s, t \in Slots :
           /\ PackedImageAt(s).image.id \in fallbackIds
           /\ PackedImageAt(s).x + FootW(PackedImageAt(s)) > cfg.pageWidth - cfg.pageMargin
           /\ PackedImageAt(t).image.id \notin fallbackIds
           /\ PackedImageAt(t).x > cfg.pageMargin

\* C5 (termination): every call of packImages returns; each completed
\* iteration of the while loop leaves remainingImages strictly shorter, and
\* the loop completes at most images.length iterations.
C5_Termination ==
    /\ [][(pc = "for" /\ pc' = "while") =>
              /\ Len(remainingImages') < Len(remainingImages)
              /\ passes' <= Len(images)]_vars
    /\ (pc = "while") ~> (pc = "returned")

C5_Witness ==
    /\ pc = "returned"
    /\ Len(images) = 3
    /\ passes = 3

\* C6 (rotation consistency): whenever packImages commits a placement, the
\* rectangle it hands to place is (height + imageMargin) by (width +
\* imageMargin) if the PackedImage is rotated and (width + imageMargin) by
\* (height + imageMargin) if it is not; it fits a free rectangle whose corner
\* is the returned position, and no free rectangle meets it afterwards.
C6_Committed ==
    LET pi  == page'.images[Len(page'.images)]
        r   == placedRects'[Len(placedRects')]
        img == pi.image
        m   == cfg.imageMargin
    IN  /\ Len(placedRects') = Len(page'.images)
        /\ r.x + cfg.pageMargin = pi.x /\ r.y + cfg.pageMargin = pi.y
        /\ pi.rotated => (r.width = img.height + m /\ r.height = img.width + m)
        /\ ~ pi.rotated => (r.width = img.width + m /\ r.height = img.height + m)
        /\ \E k \in 1..Len(freeRects) :
               /\ freeRects[k].x = r.x /\ freeRects[k].y = r.y
               /\ r.width <= freeRects[k].width /\ r.height <= freeRects[k].height
        /\ \A k \in 1..Len(freeRects') :
               \/ freeRects'[k].x >= r.x + r.width
               \/ freeRects'[k].x + freeRects'[k].width <= r.x
               \/ freeRects'[k].y >= r.y + r.height
               \/ freeRects'[k].y + freeRects'[k].height <= r.y

C6_RotationConsistency ==
    [][(pc = "for" /\ pc' = "for" /\ Len(page'.images) = Len(page.images) + 1)
           => C6_Committed]_vars

C6_Witness ==
    /\ pc = "for"
    /\ Len(page.images) = 2
    /\ page.images[1].rotated
    /\ ~ page.images[2].rotated
    /\ page.images[1].image.width # page.images[1].image.height

\* C7 (oversized-image fallback): when packImages returns, every input image
\* that fits the empty printable area in neither orientation once inflated by
\* imageMargin is alone on a page, at (pageMargin, pageMargin), rotated
\* exactly when its own width and height do not fit the printable area while
\* its height and width do.
C7_Fallback ==
    pc = "returned" =>
        \A k \in 1..Len(images) :
            LET img == images[k]
                aw  == cfg.pageWidth - 2 * cfg.pageMargin
                ah  == cfg.pageHeight - 2 * cfg.pageMargin
                m   == cfg.imageMargin
                placeable == \/ img.width + m <= aw /\ img.height + m <= ah
                             \/ img.height + m <= aw /\ img.width + m <= ah
                fitsNormal  == img.width <= aw /\ img.height <= ah
                fitsRotated == img.height <= aw /\ img.width <= ah
            IN  ~ placeable =>
                    \E p \in 1..Len(pages) :
                        pages[p].images = << [image   |-> img,
                                              x       |-> cfg.pageMargin,
                                              y       |-> cfg.pageMargin,
                                              rotated |-> ~ fitsNormal /\ fitsRotated] >>

\* The example of the claim: one 300 x 300 mm image on A4 with pageMargin 10.
C7_Witness ==
    /\ pc = "returned"
    /\ Len(images) = 1
    /\ images[1].width = Mm(300) /\ images[1].height = Mm(300)
    /\ cfg.pageWidth = Mm(210) /\ cfg.pageHeight = Mm(297) /\ cfg.pageMargin = Mm(10)
    /\ fallbackIds = {1}
    /\ pages = << [images |-> << [image |-> images[1], x |-> Mm(10), y |-> Mm(10),
                                  rotated |-> FALSE] >>] >>

\* C4 (determinism, independence of invocations): whenever a call of
\* packImages returns and its arguments are those of the first call made,
\* the Page[] it returns is the Page[] the first call returned, whatever
\* other calls came in between.
C4_Determinism ==
    (pc = "returned" /\ refInput = << [images |-> images, cfg |-> cfg] >>)
        => refResult = << pages >>

C4_Witness ==
    /\ pc = "returned"
    /\ refInput = << [images |-> images, cfg |-> cfg] >>
    /\ prevInput # << >>
    /\ prevInput # refInput
    /\ Len(pages) = 2
    /\ Len(prevInput[1].images) = 2

\* C8: after updateImageSize(id, width, height) with maintainAspect = true the
\* image's height/width equals naturalHeight/naturalWidth; when exactly one of
\* the supplied width and height differs from the stored value, the supplied
\* value is kept as given and the other dimension follows from the natural
\* aspect ratio (natural 800x400, stored 50x25, new width 100: height 50).
C8_AspectLockedResize ==
    (lastResize # << >> /\ lastResize[1].maintainAspect) =>
        \A k \in 1..Len(printImages) :
            printImages[k].id = lastResize[1].imageId =>
                LET img == printImages[k]
                    call == lastResize[1]
                IN  /\ img.height * img.naturalWidth = img.width * img.naturalHeight
                    /\ (call.width # call.before.width /\ call.height = call.before.height)
                           => img.width = call.width
                    /\ (call.width = call.before.width /\ call.height # call.before.height)
                           => img.height = call.height
                    /\ ( /\ img.naturalWidth = 800 /\ img.naturalHeight = 400
                         /\ call.before.width = Mm(50) /\ call.before.height = Mm(25)
                         /\ call.width = Mm(100) /\ call.height = Mm(25) )
                           => (img.width = Mm(100) /\ img.height = Mm(50))

\* Natural 800x400, stored 50x25, only the width changed, to 100: it is kept
\* and the height becomes 50.
C8_Witness ==
    /\ lastResize # << >>
    /\ lastResize[1].maintainAspect
    /\ lastResize[1].before.naturalWidth = 800
    /\ lastResize[1].before.width = Mm(50)
    /\ lastResize[1].before.height = Mm(25)
    /\ lastResize[1].width = Mm(100)
    /\ lastResize[1].height = Mm(25)
    /\ \E k \in 1..Len(printImages) :
           /\ printImages[k].id = lastResize[1].imageId
           /\ printImages[k].width = Mm(100)
           /\ printImages[k].height = Mm(50)

\* C9: once the repack triggered by the last change has run, currentPageIndex
\* is within [0, pages.length - 1] when pages is non-empty and is 0 when pages
\* is empty; a removal that shrinks a 2-page layout to 1 page while the index
\* is 1 leaves the index at 0.
C9_IndexValid ==
    ~ repackPending =>
        /\ Len(statePages) > 0 => currentPageIndex \in 0..(Len(statePages) - 1)
        /\ Len(statePages) = 0 => currentPageIndex = 0
        /\ (removedAt = << 2, 1 >> /\ Len(statePages) = 1) => currentPageIndex = 0

\* A removal on the second of two pages has been repacked into one page.
C9_Witness ==
    /\ ~ repackPending
    /\ removedAt = << 2, 1 >>
    /\ Len(statePages) = 1
    /\ Len(printImages) = 1
    /\ currentPageIndex = 0

\* C10: when imageMargin is 0, no cut mark is emitted for any placed image by
\* any renderer (canvas preview, PDF export, print HTML).
C10_NoMarksAtZeroMargin ==
    imageMargin = 0 =>
        /\ canvasMarks = << >>
        /\ pdfMarks = << >>
        /\ printMarks = << >>

Abs(x) == IF x < 0 THEN -x ELSE x

\* The lengths of the two arms of a stroked canvas path (upx), of a PDF line
\* and of a print marker div (mm).
CanvasArms(path) ==
    { Abs(path[1][1] - path[2][1]) + Abs(path[1][2] - path[2][2]),
      Abs(path[2][1] - path[3][1]) + Abs(path[2][2] - path[3][2]) }
PdfLineLength(line) == Abs(line[3] - line[1]) + Abs(line[4] - line[2])
PrintMarkerLength(m) == Max(m.width, m.height)

\* C11: for every imageMargin in [0, 20] mm the length of each emitted cut-mark
\* segment is at most imageMargin / 2, so that a mark never reaches a
\* neighbouring image placed imageMargin away, nor its marks.
C11_MarksWithinMargin ==
    /\ \A k \in 1..Len(canvasMarks) : \A len \in CanvasArms(canvasMarks[k].mark) :
           2 * len <= imageMargin * MM_TO_PX
    /\ \A k \in 1..Len(pdfMarks) : 2 * PdfLineLength(pdfMarks[k].mark) <= imageMargin
    /\ \A k \in 1..Len(printMarks) : 2 * PrintMarkerLength(printMarks[k].mark) <= imageMargin

\* C12: for the same PackedImage and the same imageMargin the canvas preview,
\* the PDF export and the print HTML emit cut marks of the same length once
\* converted to millimetres (1 mm is MM_TO_PX canvas units), starting at the
\* same corners of the image's bounding box.
C12_SameMarksAcrossRenderers ==
    /\ \A k \in 1..Len(canvasMarks), j \in 1..Len(pdfMarks) :
           canvasMarks[k].id = pdfMarks[j].id =>
               \A len \in CanvasArms(canvasMarks[k].mark) :
                   len = PdfLineLength(pdfMarks[j].mark) * MM_TO_PX
    /\ \A k \in 1..Len(printMarks), j \in 1..Len(pdfMarks) :
           printMarks[k].id = pdfMarks[j].id =>
               PrintMarkerLength(printMarks[k].mark) = PdfLineLength(pdfMarks[j].mark)

PdfAdded(job) == { job.doc[k].id : k \in { i \in 1..Len(job.doc) : job.doc[i].op = "addImage" } }

\* C14: a failed image load does not abort a preview render, a PDF export or
\* a print: every other image is still processed, the PDF is still saved,
\* the print dialog still opens, and pages and printImages are not changed.
C14_FailureIsolation ==
    /\ [](pdfJob # << >> =>
            /\ pdfJob[1].saved \/ pdfJob[1].inflight # {}
            /\ pdfJob[1].saved =>
                   /\ PdfAdded(pdfJob[1]) = IdsOf(Concat([p \in 1..Len(pdfJob[1].pages) |->
                                                   pdfJob[1].pages[p].images], 1))
                                            \ pdfJob[1].failed
                   /\ DocPages(pdfJob[1].doc) = Len(pdfJob[1].pages))
    /\ [](printJob # << >> =>
            { printJob[1].doc[k].id : k \in { i \in 1..Len(printJob[1].doc) :
                                                printJob[1].doc[i].op = "image" } }
                = IdsOf(Concat([p \in 1..Len(printJob[1].pages) |->
                                   printJob[1].pages[p].images], 1)))
    /\ [](Len(previewRuns) > 0 =>
            LET run == previewRuns[Len(previewRuns)]
            IN  { canvasDrawn[k].id : k \in 1..Len(canvasDrawn) }
                    = (IdsOf(run.images) \ run.pending) \ run.failed)
    /\ [][(pdfJob' # pdfJob \/ printJob' # printJob \/ previewRuns' # previewRuns)
            => UNCHANGED << statePages, printImages >>]_vars
    /\ (pdfJob # << >>) ~> (pdfJob # << >> /\ pdfJob[1].saved)
    /\ (printJob # << >>) ~> (printJob # << >> /\ printJob[1].opened)

\* A two-page export was saved although the image of its first page failed,
\* the image of the second page being in the document; and a print dialog
\* opened although an image failed.
C14_Witness ==
    /\ pdfJob # << >>
    /\ pdfJob[1].saved
    /\ Len(pdfJob[1].pages) = 2
    /\ pdfJob[1].failed = IdsOf(pdfJob[1].pages[1].images)
    /\ PdfAdded(pdfJob[1]) = IdsOf(pdfJob[1].pages[2].images)
    /\ printJob # << >>
    /\ printJob[1].opened
    /\ printJob[1].failed # {}

\* The page events and the image events of a document, in document order.
PageEvents(doc) == SelectSeq(doc, LAMBDA ev : ev.op \in {"newDoc", "addPage", "page"})
ImageEvents(doc) == SelectSeq(doc, LAMBDA ev : ev.op \in {"addImage", "image"})

\* Every image event lies between the page event of its own Page and the next.
InPageOrder(doc) ==
    /\ \A k \in 1..Len(PageEvents(doc)) : PageEvents(doc)[k].pageIdx = k - 1
    /\ \A i \in 1..Len(doc) :
           doc[i].op \in {"addImage", "image"} =>
               doc[i].pageIdx = Cardinality({ k \in 1..i :
                                    doc[k].op \in {"newDoc", "addPage", "page"} }) - 1

\* C15: the PDF export produces its pages strictly in Page-list order, every
\* image of pages[k] that loads being added before the document page for
\* pages[k+1] is opened, with at most one image load in flight; the print
\* HTML appends one page element per Page in the same order.
C15_ExportPageOrder ==
    /\ pdfJob # << >> =>
           /\ InPageOrder(pdfJob[1].doc)
           /\ \A i \in 1..Len(pdfJob[1].doc) :
                  pdfJob[1].doc[i].op = "addImage" =>
                      /\ pdfJob[1].doc[i].on = pdfJob[1].doc[i].pageIdx
                      /\ pdfJob[1].doc[i].id
                             \in IdsOf(pdfJob[1].pages[pdfJob[1].doc[i].pageIdx + 1].images)
           /\ Cardinality(pdfJob[1].inflight) <= 1
           /\ DocPages(pdfJob[1].doc) = pdfJob[1].pageIdx + 1
           /\ pdfJob[1].saved => DocPages(pdfJob[1].doc) = Len(pdfJob[1].pages)
    /\ printJob # << >> =>
           /\ InPageOrder(printJob[1].doc)
           /\ Len(PageEvents(printJob[1].doc)) = Len(printJob[1].pages)
           /\ \A i \in 1..Len(printJob[1].doc) :
                  printJob[1].doc[i].op = "image" =>
                      printJob[1].doc[i].id
                          \in IdsOf(printJob[1].pages[printJob[1].doc[i].pageIdx + 1].images)

\* A two-page export was saved with the images of both pages, and a two-page
\* print document was built.
C15_Witness ==
    /\ pdfJob # << >>
    /\ pdfJob[1].saved
    /\ Len(pdfJob[1].pages) = 2
    /\ Len(ImageEvents(pdfJob[1].doc)) = 2
    /\ printJob # << >>
    /\ Len(PageEvents(printJob[1].doc)) = 2

\* C16: no renderer shows or finalises a page while an image load of that
\* page is pending: the canvas shows no image of the current page until every
\* load of the latest preview render has settled, the PDF is saved only
\* after every load has settled, and the print dialog opens only after every
\* image element has loaded or failed.
C16_AllBeforePaint ==
    /\ (Len(previewRuns) > 0 /\ previewRuns[Len(previewRuns)].pending # {})
           => canvasDrawn = << >>
    /\ (pdfJob # << >> /\ pdfJob[1].saved) =>
           /\ pdfJob[1].inflight = {}
           /\ PdfAdded(pdfJob[1]) \cup pdfJob[1].failed
                  = IdsOf(Concat([p \in 1..Len(pdfJob[1].pages) |->
                                     pdfJob[1].pages[p].images], 1))
    /\ (printJob # << >> /\ printJob[1].opened) => printJob[1].pending = {}

\* An entry the input boundary should refuse: not a number, or outside the
\* field's min..max (which refuses every non-positive entry of a field whose
\* min is positive).
InvalidEntry(en) ==
    \/ en.typed = NaN
    \/ Mm(en.typed[1]) < en.lo
    \/ Mm(en.typed[1]) > en.hi
    \/ en.typed[1] < 0

\* C17 as stated: an entry that is non-numeric, non-positive or outside the
\* field's allowed range leaves the stored value exactly as it was before
\* the entry.
C17_InvalidInputKept ==
    (lastEntry # << >> /\ InvalidEntry(lastEntry[1]))
        => lastEntry[1].after = lastEntry[1].before

\* C17, amended: a non-numeric entry leaves the stored value exactly as it
\* was before the entry; a numeric entry is stored as
\* max(min, min(max, entry)), never as typed when that lies outside min..max.
C17_InvalidInputClamped ==
    lastEntry # << >> =>
        IF lastEntry[1].typed = NaN
        THEN lastEntry[1].after = lastEntry[1].before
        ELSE lastEntry[1].after
                 = Max(lastEntry[1].lo, Min(lastEntry[1].hi, Mm(lastEntry[1].typed[1])))

\* 2000 was typed into the custom width input while it held another value,
\* and 1000 mm was stored.
C17_Witness ==
    /\ lastEntry # << >>
    /\ lastEntry[1].field = "customWidth"
    /\ lastEntry[1].typed = Num(2000)
    /\ lastEntry[1].before # Mm(1000)
    /\ customWidth = Mm(1000)

\* C18: after any sequence of page-size selections, custom width/height
\* entries and margin entries, pageMargin and imageMargin are non-negative
\* and pageMargin is strictly less than half of the effective page width and
\* of the effective page height, so the printable area is positive.
C18_PageConfigInvariant ==
    /\ pageMargin >= 0
    /\ imageMargin >= 0
    /\ 2 * pageMargin < effectiveWidth
    /\ 2 * pageMargin < effectiveHeight
    /\ availableWidth([pageWidth |-> effectiveWidth, pageMargin |-> pageMargin]) > 0
    /\ availableHeight([pageHeight |-> effectiveHeight, pageMargin |-> pageMargin]) > 0

\* The ids of the images placed on a list of pages.
IdsInPages(ps) == IdsOf(Concat([p \in 1..Len(ps) |-> ps[p].images], 1))

\* C19: once the repack triggered by the last change has run, pages equals
\* packImages applied from scratch to the current printImages, effective
\* width and height, pageMargin and imageMargin, and the set of image ids in
\* pages equals the set of ids in printImages.
C19_PagesRecomputed ==
    ~ repackPending =>
        /\ statePages = packImages(printImages, effectiveWidth, effectiveHeight,
                                   pageMargin, imageMargin)
        /\ IdsInPages(statePages) = { printImages[k].id : k \in 1..Len(printImages) }

\* The layout has settled after an image was added and resized, the custom
\* page size was chosen and the image margin was changed.
C19_Witness ==
    /\ ~ repackPending
    /\ Len(statePages) > 0
    /\ pageSize = "custom"
    /\ imageMargin # DEFAULT_IMAGE_MARGIN
    /\ \E k \in 1..Len(printImages) : printImages[k].width = Mm(190)

\* Four 50x50 mm images, imageMargin 5, on a 210x297 mm page, pageMargin 10.
ScenarioB == [images |-> Squares(4, 50), cfg |-> ConfigOf(<<210, 297, 10, 5>>)]

\* C20: packImages with four 50x50 mm images, imageMargin 5, on a
\* 210x297 mm page with pageMargin 10 returns exactly one page holding all
\* four images, none placed by the fallback.
C20_ScenarioB ==
    /\ (pc = "returned" /\ images = ScenarioB.images /\ cfg = ScenarioB.cfg) =>
           /\ Len(pages) = 1
           /\ IdsOf(pages[1].images) = 1..4
           /\ Len(pages[1].images) = 4
           /\ fallbackIds = {}
           /\ pages = packImages(ScenarioB.images, Mm(210), Mm(297), Mm(10), Mm(5))

\* packImages has returned for the four 50x50 mm images.
C20_Witness ==
    /\ pc = "returned"
    /\ images = ScenarioB.images
    /\ cfg = ScenarioB.cfg
    /\ Len(pages) = 1

\* The (free rectangle, orientation) pairs that admit a width x height
\* request, and the score of a pair.
FitsIn(rect, width, height, rotated) ==
    IF rotated THEN height <= rect.width /\ width <= rect.height
    ELSE width <= rect.width /\ height <= rect.height

Candidates(rects, width, height) ==
    { c \in (1..Len(rects)) \X BOOLEAN : FitsIn(rects[c[1]], width, height, c[2]) }

ScoreOf(rects, width, height, c) ==
    IF c[2] THEN Min(rects[c[1]].width - height, rects[c[1]].height - width)
    ELSE Min(rects[c[1]].width - width, rects[c[1]].height - height)

\* c is encountered before d: an earlier rectangle, or the same rectangle
\* unrotated before rotated.
Before(c, d) == c[1] < d[1] \/ (c[1] = d[1] /\ ~ c[2] /\ d[2])

\* C21: findPosition(width, height) returns null iff no free rectangle admits
\* the request in either orientation; otherwise it returns the corner of a
\* free rectangle and an orientation of minimal score
\* min(rect.width - w, rect.height - h) among the pairs that fit, the first
\* encountered in free-list order winning among equal scores, unrotated
\* before rotated.
C21_BestShortSideFit ==
    lastTry # << >> =>
        LET t     == lastTry[1]
            cands == Candidates(t.rects, t.width, t.height)
            best  == { c \in cands :
                         \A d \in cands :
                             \/ ScoreOf(t.rects, t.width, t.height, c)
                                    < ScoreOf(t.rects, t.width, t.height, d)
                             \/ /\ ScoreOf(t.rects, t.width, t.height, c)
                                       = ScoreOf(t.rects, t.width, t.height, d)
                                /\ (c = d \/ Before(c, d)) }
        IN  /\ (t.position = << >>) <=> (cands = {})
            /\ cands # {} =>
                   /\ Cardinality(best) = 1
                   /\ \A c \in best :
                          t.position = << [x |-> t.rects[c[1]].x, y |-> t.rects[c[1]].y,
                                           rotated |-> c[2]] >>

\* findPosition passed over a pair that fits, met earlier, for a pair with a
\* strictly smaller score met later.
C21_Witness ==
    /\ lastTry # << >>
    /\ \E c, d \in Candidates(lastTry[1].rects, lastTry[1].width, lastTry[1].height) :
           /\ Before(c, d)
           /\ ScoreOf(lastTry[1].rects, lastTry[1].width, lastTry[1].height, d)
                  < ScoreOf(lastTry[1].rects, lastTry[1].width, lastTry[1].height, c)
           /\ lastTry[1].position = << [x |-> lastTry[1].rects[d[1]].x,
                                        y |-> lastTry[1].rects[d[1]].y,
                                        rotated |-> d[2]] >>
           /\ lastTry[1].rects[c[1]].x # lastTry[1].rects[d[1]].x

\* Two rectangles share a region of positive area.
Overlap(a, b) ==
    /\ a.x < b.x + b.width
    /\ b.x < a.x + a.width
    /\ a.y < b.y + b.height
    /\ b.y < a.y + a.height

\* s is a strip of r lying left of, right of, above or below p.
StripOf(s, r, p) ==
    /\ s.width > 0
    /\ s.height > 0
    /\ s.x >= r.x
    /\ s.y >= r.y
    /\ s.x + s.width <= r.x + r.width
    /\ s.y + s.height <= r.y + r.height
    /\ \/ s.x + s.width <= p.x
       \/ s.x >= p.x + p.width
       \/ s.y + s.height <= p.y
       \/ s.y >= p.y + p.height

\* C22: for every place issued by packImages, each free rectangle that does
\* not intersect the placed rectangle is still in the free list afterwards,
\* unchanged, and every other rectangle of the new list is a strip, of
\* positive width and height, of an intersecting free rectangle, lying left
\* of, right of, above or below the placed rectangle.
C22_PlaceKeepsUntouched ==
    (lastTry # << >> /\ lastTry[1].placed # << >>) =>
        LET t == lastTry[1]
            p == t.placed[1]
        IN  /\ \A k \in 1..Len(t.rects) :
                   ~ Overlap(p, t.rects[k]) =>
                       \E j \in 1..Len(t.after) : t.after[j] = t.rects[k]
            /\ \A j \in 1..Len(t.after) :
                   \/ \E k \in 1..Len(t.rects) :
                          ~ Overlap(p, t.rects[k]) /\ t.after[j] = t.rects[k]
                   \/ \E k \in 1..Len(t.rects) :
                          Overlap(p, t.rects[k]) /\ StripOf(t.after[j], t.rects[k], p)

\* A place call that left one free rectangle untouched and cut another into
\* strips.
C22_Witness ==
    /\ lastTry # << >>
    /\ lastTry[1].placed # << >>
    /\ \E k \in 1..Len(lastTry[1].rects) :
           /\ ~ Overlap(lastTry[1].placed[1], lastTry[1].rects[k])
           /\ \E j \in 1..Len(lastTry[1].after) : lastTry[1].after[j] = lastTry[1].rects[k]
    /\ \E k \in 1..Len(lastTry[1].rects), i, j \in 1..Len(lastTry[1].after) :
           /\ i # j
           /\ Overlap(lastTry[1].placed[1], lastTry[1].rects[k])
           /\ StripOf(lastTry[1].after[i], lastTry[1].rects[k], lastTry[1].placed[1])
           /\ StripOf(lastTry[1].after[j], lastTry[1].rects[k], lastTry[1].placed[1])
           /\ lastTry[1].after[i] # lastTry[1].rects[k]
           /\ lastTry[1].after[j] # lastTry[1].rects[k]

\* Rectangle a lies inside rectangle b (possibly equal to it).
Within(a, b) ==
    /\ a.x >= b.x
    /\ a.y >= b.y
    /\ a.x + a.width <= b.x + b.width
    /\ a.y + a.height <= b.y + b.height

\* C23: after every place call, no free rectangle of the packer's list is
\* fully contained in another rectangle of the list, and no two are equal.
C23_PrunedFreeList ==
    /\ (lastTry # << >> /\ lastTry[1].placed # << >>) =>
           \A i, j \in 1..Len(lastTry[1].after) :
               i # j => ~ Within(lastTry[1].after[i], lastTry[1].after[j])
    /\ pc = "for" =>
           \A i, j \in 1..Len(freeRects) : i # j => ~ Within(freeRects[i], freeRects[j])

\* A place call whose split produced a rectangle contained in another, which
\* pruning removed, leaving at least two free rectangles.
C23_Witness ==
    /\ lastTry # << >>
    /\ lastTry[1].placed # << >>
    /\ Len(lastTry[1].after) >= 2
    /\ Len(SplitAll(lastTry[1].placed[1], lastTry[1].rects, 1)) > Len(lastTry[1].after)
    /\ freeRects = lastTry[1].after

\* C24: an image whose width and height fit the printable area
\* (pageWidth - 2 pageMargin by pageHeight - 2 pageMargin) in some
\* orientation is never placed by the fallback: whenever a pass on a fresh
\* page places nothing, the head of the remaining list fits in neither
\* orientation.
C24_FallbackOnlyWhenTooLarge ==
    \A k \in 1..Len(images) :
        images[k].id \in fallbackIds =>
            /\ ~ (/\ images[k].width <= availableWidth(cfg)
                  /\ images[k].height <= availableHeight(cfg))
            /\ ~ (/\ images[k].height <= availableWidth(cfg)
                  /\ images[k].width <= availableHeight(cfg))

\* The position of an image in the input list (ids are unique).
InputIndex(img) == CHOOSE k \in 1..Len(images) : images[k].id = img.id

\* A sequence of images is in non-increasing order of area, images of equal
\* area in input order.
LargestFirst(imgs) ==
    \A i, j \in 1..Len(imgs) :
        i < j =>
            \/ imgs[i].width * imgs[i].height > imgs[j].width * imgs[j].height
            \/ /\ imgs[i].width * imgs[i].height = imgs[j].width * imgs[j].height
               /\ InputIndex(imgs[i]) < InputIndex(imgs[j])

\* The images of the pages from the p-th on.
ImagesFrom(p) ==
    UNION { { pages[q].images[k].image : k \in 1..Len(pages[q].images) } : q \in p..Len(pages) }

\* C25: the images are offered to each page's packer in non-increasing order
\* of area, images of equal area in input order; the PackedImages of every
\* page are listed in non-increasing area order; the image taken by the
\* fallback is the largest-area image still unplaced.
C25_LargestFirst ==
    pc # "idle" =>
        /\ LargestFirst(remainingImages)
        /\ \A p \in 1..Len(pages) :
               LargestFirst([k \in 1..Len(pages[p].images) |-> pages[p].images[k].image])
        /\ pc = "for" => LargestFirst([k \in 1..Len(page.images) |-> page.images[k].image])
        /\ \A p \in 1..Len(pages) :
               pages[p].images[1].image.id \in fallbackIds =>
                   /\ \A img \in ImagesFrom(p) :
                          img.width * img.height
                              <= pages[p].images[1].image.width * pages[p].images[1].image.height
                   /\ (pc = "while" /\ p = Len(pages)) =>
                          \A k \in 1..Len(remainingImages) :
                              remainingImages[k].width * remainingImages[k].height
                                  <= pages[p].images[1].image.width
                                         * pages[p].images[1].image.height

\* packImages returned a page whose two images were reordered by the sort,
\* followed by the page of the image the fallback took.
C25_Witness ==
    /\ pc = "returned"
    /\ Len(pages) = 2
    /\ Len(pages[1].images) = 2
    /\ pages[1].images[1].image.id > pages[1].images[2].image.id
    /\ pages[1].images[1].image.width * pages[1].images[1].image.height
           > pages[1].images[2].image.width * pages[1].images[2].image.height
    /\ pages[2].images[1].image.id \in fallbackIds

\* The unit square with lower corner (x, y) lies in rectangle r.
Covers(r, x, y) ==
    /\ r.x <= x /\ x < r.x + r.width
    /\ r.y <= y /\ y < r.y + r.height

\* The x and y coordinates at which rectangles of a list begin or end.
EdgesX(rects) == UNION { { rects[k].x, rects[k].x + rects[k].width } : k \in 1..Len(rects) }
EdgesY(rects) == UNION { { rects[k].y, rects[k].y + rects[k].height } : k \in 1..Len(rects) }

\* Every point of the printable area outside the placed rectangles lies in a
\* free rectangle.  All coordinates being integers, it is enough to look at
\* the unit squares whose lower corner is an edge coordinate.
FreeSpaceKept(free, placed, aw, ah) ==
    \A x \in {0} \cup EdgesX(free) \cup EdgesX(placed),
       y \in {0} \cup EdgesY(free) \cup EdgesY(placed) :
        (0 <= x /\ x < aw /\ 0 <= y /\ y < ah) =>
            \/ \E k \in 1..Len(placed) : Covers(placed[k], x, y)
            \/ \E k \in 1..Len(free) : Covers(free[k], x, y)

\* C26: after any sequence of findPosition/place calls made by packImages on
\* one page, every point of the printable area that is not covered by a
\* placed (margin-inflated) rectangle is covered by at least one free
\* rectangle; the rectangles handed to pruneRects are pairwise different, so
\* pruning never removes two rectangles that contain each other.
C26_NoFreeSpaceLost ==
    /\ pc = "for" =>
           FreeSpaceKept(freeRects, placedRects, availableWidth(cfg), availableHeight(cfg))
    /\ (lastTry # << >> /\ lastTry[1].placed # << >>) =>
           \A i, j \in 1..Len(SplitAll(lastTry[1].placed[1], lastTry[1].rects, 1)) :
               i # j => SplitAll(lastTry[1].placed[1], lastTry[1].rects, 1)[i]
                            # SplitAll(lastTry[1].placed[1], lastTry[1].rects, 1)[j]

\* Three rectangles were placed on the page, pruning removed a strip, and at
\* least two free rectangles are left.
C26_Witness ==
    /\ pc = "for"
    /\ Len(placedRects) = 3
    /\ Len(freeRects) >= 2
    /\ lastTry # << >>
    /\ lastTry[1].placed # << >>
    /\ Len(SplitAll(lastTry[1].placed[1], lastTry[1].rects, 1)) > Len(freeRects)

\* C27: for a page configuration with positive printable area, in every
\* state of a packing pass each free rectangle has strictly positive width
\* and height, lies inside [0, availableWidth] x [0, availableHeight], and
\* has no interior point in common with a rectangle placed on that page.
C27_FreeRectsSound ==
    (pc = "for" /\ availableWidth(cfg) > 0 /\ availableHeight(cfg) > 0) =>
        \A k \in 1..Len(freeRects) :
            /\ freeRects[k].width > 0
            /\ freeRects[k].height > 0
            /\ freeRects[k].x >= 0
            /\ freeRects[k].y >= 0
            /\ freeRects[k].x + freeRects[k].width <= availableWidth(cfg)
            /\ freeRects[k].y + freeRects[k].height <= availableHeight(cfg)
            /\ \A j \in 1..Len(placedRects) : ~ Overlap(freeRects[k], placedRects[j])

\* Two rectangles are placed on a page of positive printable area, and two
\* free rectangles that overlap each other are left next to them.
C27_Witness ==
    /\ pc = "for"
    /\ availableWidth(cfg) > 0
    /\ availableHeight(cfg) > 0
    /\ Len(placedRects) = 2
    /\ \E i, j \in 1..Len(freeRects) : i # j /\ Overlap(freeRects[i], freeRects[j])

\* C28: every Page returned by packImages holds at least one PackedImage,
\* so the number of pages never exceeds the number of input images, and an
\* empty image list yields an empty Page[].
C28_NoEmptyPages ==
    pc # "idle" =>
        /\ \A p \in 1..Len(pages) : Len(pages[p].images) >= 1
        /\ Len(pages) <= Len(images)
        /\ (pc = "returned" /\ images = << >>) => pages = << >>
        /\ pc = "returned" =>
               pages = packImages(images, cfg.pageWidth, cfg.pageHeight,
                                  cfg.pageMargin, cfg.imageMargin)

\* packImages returned as many pages as it was given images, each image
\* alone on its page.
C28_Witness ==
    /\ pc = "returned"
    /\ Len(images) = 3
    /\ Len(pages) = 3
    /\ \A p \in 1..3 : Len(pages[p].images) = 1

\* The ids of a list of print images.
ListIds(imgs) == { imgs[k].id : k \in 1..Len(imgs) }

\* next is prev with one new image appended, of a fresh id, 50 mm wide and
\* 50 x naturalHeight / naturalWidth mm high, for a load that was in flight.
AppendsOne(prev, next) ==
    /\ Len(next) = Len(prev) + 1
    /\ SubSeq(next, 1, Len(prev)) = prev
    /\ next[Len(next)].id \notin ListIds(prev)
    /\ next[Len(next)].id >= nextId
    /\ next[Len(next)].width = Mm(50)
    /\ next[Len(next)].height * next[Len(next)].naturalWidth
           = Mm(50) * next[Len(next)].naturalHeight
    /\ \E k \in 1..Len(loadingImages) :
           /\ loadingImages[k].nat[1] = next[Len(next)].naturalWidth
           /\ loadingImages[k].nat[2] = next[Len(next)].naturalHeight

\* next is prev without exactly one entry.
DeletesOne(prev, next) ==
    \E k \in 1..Len(prev) :
        /\ next = SubSeq(prev, 1, k - 1) \o SubSeq(prev, k + 1, Len(prev))
        /\ prev[k].id \notin ListIds(next)

\* next is prev with the width and height of exactly one entry changed.
ChangesOne(prev, next) ==
    /\ Len(next) = Len(prev)
    /\ \E k \in 1..Len(prev) :
           /\ \A j \in 1..Len(prev) : j # k => next[j] = prev[j]
           /\ next[k] = [prev[k] EXCEPT !.width = next[k].width,
                                        !.height = next[k].height]

C30_OnePagePerPageEntry ==
    pdfJob # << >> =>
        /\ Len(pdfJob[1].pages) > 0
        /\ DocPages(pdfJob[1].doc) <= Len(pdfJob[1].pages)
        /\ \A k \in 1..Len(PageEvents(pdfJob[1].doc)) :
               /\ PageEvents(pdfJob[1].doc)[k].pageIdx = k - 1
               /\ PageEvents(pdfJob[1].doc)[k].format
                      = << pdfJob[1].width, pdfJob[1].height >>
        /\ pdfJob[1].saved =>
               /\ DocPages(pdfJob[1].doc) = Len(pdfJob[1].pages)
               /\ \A i \in 1..Len(pdfJob[1].doc) :
                      pdfJob[1].doc[i].op = "addImage" =>
                          pdfJob[1].doc[i].id
                              \in IdsOf(pdfJob[1].pages[pdfJob[1].doc[i].on + 1].images)
        /\ ~ pdfJob[1].saved => pdfJob[1].inflight # {}

\* A two-page export was saved after an image load failed, an image was
\* removed and the page size was changed while it was in flight: the layout
\* now has one page of another size.
C30_Witness ==
    /\ pdfJob # << >>
    /\ pdfJob[1].saved
    /\ Len(pdfJob[1].pages) = 2
    /\ DocPages(pdfJob[1].doc) = 2
    /\ pdfJob[1].failed # {}
    /\ ~ repackPending
    /\ Len(statePages) = 1
    /\ effectiveWidth # pdfJob[1].width

====
